---- MODULE Spec2Model ----
(***************************************************************************)
(* The pagination state machine of paginate(): the async generator         *)
(* paginateGenerator, the callback adapter of paginate(), and a consumer    *)
(* that pulls items with next() or abandons the iteration with return().    *)
(* One step of the model runs the generator from one suspension point       *)
(* (an await or a yield) to the next one.                                    *)
(***************************************************************************)
EXTENDS Integers, Sequences, FiniteSets, TLC

\* Bounds of the model.
MaxLimit == 2        \* options.limit ranges over 1..MaxLimit
MaxFetches == 2      \* fetch calls per run: the loop is not followed past them
MaxK == 2            \* maxErrorCount ranges over 1..MaxK

(***************************************************************************)
(* JavaScript values: undefined (also a property that is not set), null,    *)
(* numbers and strings (the cursor token "cursor-<v>").                      *)
(***************************************************************************)
Undefined == [t |-> "undefined", v |-> 0]
Null == [t |-> "null", v |-> 0]
Num(n) == [t |-> "number", v |-> n]
Str(n) == [t |-> "string", v |-> n]

\* a ?? b
Coalesce(a, b) == IF a.t \in {"undefined", "null"} THEN b ELSE a

\* Errors: the rejection of the n-th fetch call, or the exception of a hook.
NoError == [src |-> "none", n |-> 0]
FetchError(n) == [src |-> "fetch", n |-> n]
HookError(h) == [src |-> h, n |-> 0]

\* PageInfo / PaginatedResult
NoResult == [items |-> <<>>, hasNextPage |-> FALSE, nextCursor |-> Undefined]

\* The params object handed to the callback: a field that is not a key of
\* the object has t = "absent".
Absent == [t |-> "absent", v |-> 0]
NoRequest == [limit |-> Absent, offset |-> Absent, page |-> Absent, cursor |-> Absent]

HookNames == {"onPage", "onReturn", "onError", "onMaxConsecutiveErrors"}

\* The hook sets of a run: no hooks, one hook, or all four.
HookSets == {{}, HookNames} \cup {{h} : h \in HookNames}

ErrorPolicies ==
    {[type |-> "throw", maxErrorCount |-> 0],
     [type |-> "break", maxErrorCount |-> 0],
     [type |-> "custom", maxErrorCount |-> 0]}
    \cup {[type |-> "continue", maxErrorCount |-> k] : k \in 1..MaxK}

\* PaginationOptions: the initial pointer of the other strategies is not a
\* field of the options object.
OffsetPaginationOptions ==
    [strategy : {"offset"}, limit : 1..MaxLimit, errorPolicy : ErrorPolicies,
     initialOffset : {Undefined, Num(1)}, initialPage : {Undefined},
     initialCursor : {Undefined}, hooks : HookSets]

PagePaginationOptions ==
    [strategy : {"page"}, limit : 1..MaxLimit, errorPolicy : ErrorPolicies,
     initialOffset : {Undefined}, initialPage : {Undefined, Num(2)},
     initialCursor : {Undefined}, hooks : HookSets]

CursorPaginationOptions ==
    [strategy : {"cursor"}, limit : 1..MaxLimit, errorPolicy : ErrorPolicies,
     initialOffset : {Undefined}, initialPage : {Undefined},
     initialCursor : {Undefined, Str(1)}, hooks : HookSets]

PaginationOptions ==
    OffsetPaginationOptions \cup PagePaginationOptions \cup CursorPaginationOptions

VARIABLES
    options,                \* the options object of this paginate() call
    pc,                     \* where the generator is suspended or awaiting
    consecutiveErrorCount,
    currentOffset,
    currentPage,
    currentCursor,
    result,                 \* the result of the last successful fetch
    index,                  \* items of result.items yielded so far by yield*
    error,                  \* the error bound by catch (error)
    raised,                 \* the exception the consumer observed
    log,                    \* every call of the callback and of a hook, in order
    delivered,              \* the items handed to the consumer, in order
    iterable,               \* a sequence built with the standalone operators
    fluent,                 \* the same sequence built with the wrapper's methods
    outcome                 \* what a terminal collector made of the two

vars == <<options, pc, consecutiveErrorCount, currentOffset, currentPage,
          currentCursor, result, index, error, raised, log, delivered,
          iterable, fluent, outcome>>

\* The variables of the sequence operators and of the generator.
opVars == <<iterable, fluent, outcome>>
genVars == <<pc, consecutiveErrorCount, currentOffset, currentPage,
             currentCursor, result, index, error, raised, log, delivered>>

\* One entry of the log: a call of the callback or of a hook (ev = "call"),
\* its completion (ev = "return" or "throw"), or an item handed to the
\* consumer (ev = "yield", n the item).
Ev(ev, of, req, res, err, n) ==
    [ev |-> ev, of |-> of, req |-> req, res |-> res, err |-> err, n |-> n]

Call(of, req, err, n) == Ev("call", of, req, NoResult, err, n)
Return(of, res) == Ev("return", of, NoRequest, res, NoError, 0)
Throw(of, err) == Ev("throw", of, NoRequest, NoResult, err, 0)
Yield(item) == Ev("yield", "consumer", NoRequest, NoResult, NoError, item)

\* The generator's state as one record, and the step that installs one.
Cur ==
    [pc |-> pc, consecutiveErrorCount |-> consecutiveErrorCount,
     currentOffset |-> currentOffset, currentPage |-> currentPage,
     currentCursor |-> currentCursor, result |-> result, index |-> index,
     error |-> error, raised |-> raised, log |-> log, delivered |-> delivered]

Events(l, ev, of) == SelectSeq(l, LAMBDA e : e.ev = ev /\ e.of = of)
Calls(l, of) == Events(l, "call", of)
NumFetches(l) == Len(Calls(l, "fetch"))

Step(m) ==
    /\ pc' = m.pc
    /\ consecutiveErrorCount' = m.consecutiveErrorCount
    /\ currentOffset' = m.currentOffset
    /\ currentPage' = m.currentPage
    /\ currentCursor' = m.currentCursor
    /\ result' = m.result
    /\ index' = m.index
    /\ error' = m.error
    /\ raised' = m.raised
    /\ log' = m.log
    /\ delivered' = m.delivered
    /\ UNCHANGED <<options, opVars>>

Has(h) == h \in options.hooks

(***************************************************************************)
(* paginateGenerator, from one suspension point to the next.  Each operator *)
(* maps the generator's state m to its state at the next await or yield.    *)
(***************************************************************************)

\* An onPage argument that is one page ahead of the request.
OnPageOptions_PointerAhead(m) ==
    [limit |-> Absent,
     offset |-> IF options.strategy = "offset"
                THEN Num(m.currentOffset + options.limit) ELSE Undefined,
     page |-> IF options.strategy = "page" THEN Num(m.currentPage + 1) ELSE Undefined,
     cursor |-> IF options.strategy = "cursor" THEN Str(0) ELSE Undefined]

\* The argument of hooks.onPage.
OnPageOptions(m) ==
    [limit |-> Absent,
     offset |-> IF options.strategy = "offset" THEN Num(m.currentOffset) ELSE Undefined,
     page |-> IF options.strategy = "page" THEN Num(m.currentPage) ELSE Undefined,
     cursor |-> IF options.strategy = "cursor" THEN m.currentCursor ELSE Undefined]

\* const params = { limit, ...(offset | page | cursor) }
Params(m) ==
    [limit |-> Num(options.limit),
     offset |-> IF options.strategy = "offset" THEN Num(m.currentOffset) ELSE Absent,
     page |-> IF options.strategy = "page" THEN Num(m.currentPage) ELSE Absent,
     cursor |-> IF options.strategy = "cursor" THEN m.currentCursor ELSE Absent]

\* Reading a property: a key that is not set reads as undefined.
Get(v) == IF v.t = "absent" THEN Undefined ELSE v

\* An adapter that hands the generator's params on as they are.
AdaptedCallback_NoDefaults(params) ==
    [params EXCEPT !.offset = IF options.strategy = "offset" THEN Get(@) ELSE @,
                   !.page = IF options.strategy = "page" THEN Get(@) ELSE @,
                   !.cursor = IF options.strategy = "cursor" THEN Get(@) ELSE @]

\* adaptedCallback of paginate(): the request the caller's fetch function sees.
AdaptedCallback(params) ==
    CASE options.strategy = "offset" ->
            [NoRequest EXCEPT !.limit = params.limit,
                              !.offset = Coalesce(Get(params.offset), Num(0))]
      [] options.strategy = "page" ->
            [NoRequest EXCEPT !.limit = params.limit,
                              !.page = Coalesce(Get(params.page), Num(1))]
      [] options.strategy = "cursor" ->
            [NoRequest EXCEPT !.limit = params.limit,
                              !.cursor = Coalesce(Get(params.cursor), Null)]

\* await callback(params)
CallCallback(m) ==
    [m EXCEPT !.pc = "fetching",
              !.log = Append(@, Call("fetch", AdaptedCallback(Params(m)), NoError, 0))]

\* A loop that does not await onPage before it fetches.
LoopTop_OnPageNotAwaited(m) ==
    IF Has("onPage")
    THEN CallCallback([m EXCEPT
            !.log = Append(@, Call("onPage", OnPageOptions(m), NoError, 0))])
    ELSE CallCallback(m)

\* The top of while (true): onPage if set, then the fetch.  After MaxFetches
\* fetch calls the generator is left at the top of the loop (pc = "loop").
LoopTop(m) ==
    IF NumFetches(m.log) >= MaxFetches
    THEN [m EXCEPT !.pc = "loop"]
    ELSE IF Has("onPage")
         THEN [m EXCEPT !.pc = "onPage",
                        !.log = Append(@, Call("onPage", OnPageOptions(m), NoError, 0))]
         ELSE CallCallback(m)

\* await options.hooks?.onReturn?.(); return  -- outside the try block
CallOnReturn(m) ==
    IF Has("onReturn")
    THEN [m EXCEPT !.pc = "onReturn",
                   !.log = Append(@, Call("onReturn", NoRequest, NoError, 0))]
    ELSE [m EXCEPT !.pc = "done"]

\* An offset that advances one past the page.
AdvanceOnSuccess_OffsetOneTooFar(m) ==
    CASE options.strategy = "offset" ->
            [m EXCEPT !.currentOffset = @ + options.limit + 1]
      [] options.strategy = "page" ->
            [m EXCEPT !.currentPage = @ + 1,
                      !.currentOffset = m.currentPage * options.limit]
      [] options.strategy = "cursor" ->
            [m EXCEPT !.currentCursor = m.result.nextCursor]

\* A page number that advances by limit, as the offset does.
AdvanceOnSuccess_PageByLimit(m) ==
    CASE options.strategy = "offset" ->
            [m EXCEPT !.currentOffset = @ + options.limit]
      [] options.strategy = "page" ->
            [m EXCEPT !.currentPage = @ + options.limit,
                      !.currentOffset = (m.currentPage + options.limit - 1) * options.limit]
      [] options.strategy = "cursor" ->
            [m EXCEPT !.currentCursor = m.result.nextCursor]

\* The pointer after a successful page that has a next page.
AdvanceOnSuccess(m) ==
    CASE options.strategy = "offset" ->
            [m EXCEPT !.currentOffset = @ + options.limit]
      [] options.strategy = "page" ->
            [m EXCEPT !.currentPage = @ + 1,
                      !.currentOffset = m.currentPage * options.limit]
      [] options.strategy = "cursor" ->
            [m EXCEPT !.currentCursor = m.result.nextCursor]

\* A continue that leaves the offset and the page where they were.
AdvanceOnContinue_PointerKept(m) == m

\* A continue that forgets the cursor.
AdvanceOnContinue_CursorReset(m) ==
    CASE options.strategy = "offset" ->
            [m EXCEPT !.currentOffset = @ + options.limit]
      [] options.strategy = "page" ->
            [m EXCEPT !.currentPage = @ + 1,
                      !.currentOffset = m.currentPage * options.limit]
      [] options.strategy = "cursor" -> [m EXCEPT !.currentCursor = Null]

\* A continue that asks for the failed page again.
AdvanceOnContinue_PageRetried(m) ==
    CASE options.strategy = "offset" ->
            [m EXCEPT !.currentOffset = @ + options.limit]
      [] options.strategy = "page" -> m
      [] options.strategy = "cursor" -> m

\* The pointer after a failure the policy continues past.
AdvanceOnContinue(m) ==
    CASE options.strategy = "offset" ->
            [m EXCEPT !.currentOffset = @ + options.limit]
      [] options.strategy = "page" ->
            [m EXCEPT !.currentPage = @ + 1,
                      !.currentOffset = m.currentPage * options.limit]
      [] options.strategy = "cursor" -> m

\* A last page after which onReturn is not called.
AfterItems_NoOnReturn(m) ==
    IF ~m.result.hasNextPage
    THEN [m EXCEPT !.pc = "done"]
    ELSE LoopTop([AdvanceOnSuccess(m) EXCEPT !.consecutiveErrorCount = 0])

\* After yield* result.items: onReturn and break, or advance and continue.
AfterItems(m) ==
    IF ~m.result.hasNextPage
    THEN IF Has("onReturn")
         THEN [m EXCEPT !.pc = "onReturnTry",
                        !.log = Append(@, Call("onReturn", NoRequest, NoError, 0))]
         ELSE [m EXCEPT !.pc = "done"]
    ELSE LoopTop([AdvanceOnSuccess(m) EXCEPT !.consecutiveErrorCount = 0])

\* A yield* that steps over every second item.
YieldStar_SkipsItems(m) ==
    IF m.index < Len(m.result.items)
    THEN [m EXCEPT !.pc = "suspendedYield",
                   !.index = @ + 2,
                   !.delivered = Append(@, m.result.items[m.index + 1]),
                   !.log = Append(@, Yield(m.result.items[m.index + 1]))]
    ELSE AfterItems(m)

\* yield* result.items: hand the next item to the consumer, or fall through.
YieldStar(m) ==
    IF m.index < Len(m.result.items)
    THEN [m EXCEPT !.pc = "suspendedYield",
                   !.index = @ + 1,
                   !.delivered = Append(@, m.result.items[m.index + 1]),
                   !.log = Append(@, Yield(m.result.items[m.index + 1]))]
    ELSE AfterItems(m)

\* An action switch whose "throw" case ends the run as "break" does.
ExecuteAction_ThrowBreaks(m, action) ==
    CASE action = "throw" -> CallOnReturn(m)
      [] action = "break" -> CallOnReturn(m)
      [] action = "continue" -> LoopTop(AdvanceOnContinue(m))

\* An action switch whose "break" case rethrows the error.
ExecuteAction_BreakThrows(m, action) ==
    CASE action = "throw" -> [m EXCEPT !.pc = "thrown", !.raised = m.error]
      [] action = "break" -> [m EXCEPT !.pc = "thrown", !.raised = m.error]
      [] action = "continue" -> LoopTop(AdvanceOnContinue(m))

\* switch (action)
ExecuteAction(m, action) ==
    CASE action = "throw" -> [m EXCEPT !.pc = "thrown", !.raised = m.error]
      [] action = "break" -> CallOnReturn(m)
      [] action = "continue" -> LoopTop(AdvanceOnContinue(m))

\* A maxErrorCount test that allows one failure more.
MaxErrorCountExceeded_Strict(m) ==
    m.consecutiveErrorCount > options.errorPolicy.maxErrorCount

\* case "continue", after onError: the maxErrorCount test.
\* A maximum that is never taken for reached.
MaxErrorCountExceeded_Never(m) == FALSE

MaxErrorCountExceeded(m) ==
    m.consecutiveErrorCount >= options.errorPolicy.maxErrorCount

\* A continue case that breaks at the maximum without reporting it.
AfterOnError_MaxNotReported(m) ==
    IF MaxErrorCountExceeded(m) THEN ExecuteAction(m, "break")
    ELSE ExecuteAction(m, "continue")

AfterOnError(m) ==
    IF MaxErrorCountExceeded(m)
    THEN IF Has("onMaxConsecutiveErrors")
         THEN [m EXCEPT !.pc = "onMaxConsecutiveErrors",
                        !.log = Append(@, Call("onMaxConsecutiveErrors", NoRequest,
                                               m.error, m.consecutiveErrorCount))]
         ELSE ExecuteAction(m, "break")
    ELSE ExecuteAction(m, "continue")

\* A policy switch whose "break" case goes on to the next page.
ErrorPolicyAction_BreakContinues(m) ==
    CASE options.errorPolicy.type = "throw" -> ExecuteAction(m, "throw")
      [] options.errorPolicy.type = "break" ->
            IF Has("onError")
            THEN [m EXCEPT !.pc = "onError",
                           !.log = Append(@, Call("onError", NoRequest, m.error, 0))]
            ELSE ExecuteAction(m, "continue")
      [] options.errorPolicy.type = "continue" ->
            IF Has("onError")
            THEN [m EXCEPT !.pc = "onError",
                           !.log = Append(@, Call("onError", NoRequest, m.error, 0))]
            ELSE AfterOnError(m)
      [] options.errorPolicy.type = "custom" ->
            [m EXCEPT !.pc = "handler",
                      !.log = Append(@, Call("handler", NoRequest, m.error,
                                             m.consecutiveErrorCount))]

\* switch (options.errorPolicy.type), with error and consecutiveErrorCount set.
ErrorPolicyAction(m) ==
    CASE options.errorPolicy.type = "throw" -> ExecuteAction(m, "throw")
      [] options.errorPolicy.type = "break" ->
            IF Has("onError")
            THEN [m EXCEPT !.pc = "onError",
                           !.log = Append(@, Call("onError", NoRequest, m.error, 0))]
            ELSE CallOnReturn(m)
      [] options.errorPolicy.type = "continue" ->
            IF Has("onError")
            THEN [m EXCEPT !.pc = "onError",
                           !.log = Append(@, Call("onError", NoRequest, m.error, 0))]
            ELSE AfterOnError(m)
      [] options.errorPolicy.type = "custom" ->
            [m EXCEPT !.pc = "handler",
                      !.log = Append(@, Call("handler", NoRequest, m.error,
                                             m.consecutiveErrorCount))]

\* catch (error) { consecutiveErrorCount++; ... }
Catch(m, err) ==
    ErrorPolicyAction([m EXCEPT !.consecutiveErrorCount = @ + 1, !.error = err])

(***************************************************************************)
(* The caller's fetch function.  The items of a page are numbered by their  *)
(* position in the source: the request's offset, (page - 1) * limit, or the *)
(* position the cursor token stands for (null: the start).                  *)
(***************************************************************************)
Base(req) ==
    CASE options.strategy = "offset" -> req.offset.v
      [] options.strategy = "page" -> (req.page.v - 1) * options.limit
      [] options.strategy = "cursor" -> IF req.cursor.t = "string" THEN req.cursor.v ELSE 0

PageItems(base, count) == [k \in 1..count |-> base + k]

\* The nextCursor of a page that has a next page: the token of the next
\* position, or no cursor (null after a full page, undefined after an empty
\* one).
NextCursors(req, count) ==
    IF options.strategy = "cursor"
    THEN IF count = options.limit
         THEN {Str(Base(req) + options.limit), Null}
         ELSE {Undefined}
    ELSE {Undefined}

\* The results a fetch may resolve with: an empty or a full page that has a
\* next page, or a last page of any size up to limit.
PaginatedResults(req) ==
    {[items |-> PageItems(Base(req), c[1]), hasNextPage |-> TRUE, nextCursor |-> c[2]] :
        c \in UNION {{<<n, nc>> : nc \in NextCursors(req, n)} : n \in {0, options.limit}}}
    \cup
    {[items |-> PageItems(Base(req), c), hasNextPage |-> FALSE, nextCursor |-> Undefined] :
        c \in 0..options.limit}

LastRequest == Calls(log, "fetch")[NumFetches(log)].req

Logged(m, e) == [m EXCEPT !.log = Append(@, e)]

\* No terminal collector has run.
NoOutcome == [op |-> "none"]

\* The generator of paginate(callback, options) before its first next(); its
\* locals hold the values the first next() gives them.
GeneratorInit ==
    /\ pc = "suspendedStart"
    /\ consecutiveErrorCount = 0
    /\ currentPage = IF options.strategy = "page"
                     THEN Coalesce(options.initialPage, Num(1)).v ELSE 1
    /\ currentOffset =
         CASE options.strategy = "offset" -> Coalesce(options.initialOffset, Num(0)).v
           [] options.strategy = "page" ->
                (Coalesce(options.initialPage, Num(1)).v - 1) * options.limit
           [] options.strategy = "cursor" -> 0
    /\ currentCursor = IF options.strategy = "cursor" THEN options.initialCursor ELSE Null
    /\ result = NoResult
    /\ index = 0
    /\ error = NoError
    /\ raised = NoError
    /\ log = <<>>
    /\ delivered = <<>>

(***************************************************************************)
(* The state after paginate(callback, options): nothing has run yet, and    *)
(* the consumer is one that calls next() and return() as it likes.          *)
(***************************************************************************)
Init ==
    /\ options \in PaginationOptions
    /\ GeneratorInit
    /\ iterable = <<>>
    /\ fluent = <<>>
    /\ outcome = NoOutcome

\* The consumer calls next().
ConsumerNext ==
    \/ /\ pc = "suspendedStart"
       /\ Step(LoopTop(Cur))
    \/ /\ pc = "suspendedYield"
       /\ Step(YieldStar(Cur))

\* A return() that runs onReturn before the generator completes, as a
\* finally block around the loop would.
GeneratorReturn_RunsOnReturn(m) ==
    IF Has("onReturn")
    THEN [m EXCEPT !.pc = "onReturn",
                   !.log = Append(@, Call("onReturn", NoRequest, NoError, 0))]
    ELSE [m EXCEPT !.pc = "returned"]

\* return() on the generator suspended at its start or at yield*: the try
\* block has no finally, so the generator completes and runs nothing more.
GeneratorReturn(m) == [m EXCEPT !.pc = "returned"]

\* The consumer abandons the iteration: return() on the suspended generator.
ConsumerReturn ==
    /\ pc \in {"suspendedStart", "suspendedYield"}
    /\ Step(GeneratorReturn(Cur))

OnPageReturns ==
    /\ pc = "onPage"
    /\ Step(CallCallback(Logged(Cur, Return("onPage", NoResult))))

\* An onPage called inside the try block: its exception is caught.
OnPageThrows_Caught ==
    /\ pc = "onPage"
    /\ Step(Catch(Logged(Cur, Throw("onPage", HookError("onPage"))), HookError("onPage")))

OnPageThrows ==
    /\ pc = "onPage"
    /\ Step([Logged(Cur, Throw("onPage", HookError("onPage")))
                EXCEPT !.pc = "thrown", !.raised = HookError("onPage")])

FetchResolves ==
    /\ pc = "fetching"
    /\ \E res \in PaginatedResults(LastRequest) :
          Step(YieldStar([Logged(Cur, Return("fetch", res))
                             EXCEPT !.result = res, !.index = 0]))

FetchRejects ==
    /\ pc = "fetching"
    /\ Step(Catch(Logged(Cur, Throw("fetch", FetchError(NumFetches(log)))),
                  FetchError(NumFetches(log))))

\* onReturn called inside the try block, after the last page.
OnReturnInTryReturns ==
    /\ pc = "onReturnTry"
    /\ Step([Logged(Cur, Return("onReturn", NoResult)) EXCEPT !.pc = "done"])

OnReturnInTryThrows ==
    /\ pc = "onReturnTry"
    /\ Step(Catch(Logged(Cur, Throw("onReturn", HookError("onReturn"))),
                  HookError("onReturn")))

OnErrorReturns ==
    /\ pc = "onError"
    /\ Step(IF options.errorPolicy.type = "break"
            THEN CallOnReturn(Logged(Cur, Return("onError", NoResult)))
            ELSE AfterOnError(Logged(Cur, Return("onError", NoResult))))

\* An onError whose exception is not caught.
OnErrorThrows_Propagates ==
    /\ pc = "onError"
    /\ Step([Logged(Cur, Throw("onError", HookError("onError")))
                EXCEPT !.pc = "thrown", !.raised = HookError("onError")])

OnErrorThrows ==
    /\ pc = "onError"
    /\ Step(CallOnReturn(Logged(Cur, Throw("onError", HookError("onError")))))

OnMaxConsecutiveErrorsReturns ==
    /\ pc = "onMaxConsecutiveErrors"
    /\ Step(ExecuteAction(Logged(Cur, Return("onMaxConsecutiveErrors", NoResult)), "break"))

OnMaxConsecutiveErrorsThrows ==
    /\ pc = "onMaxConsecutiveErrors"
    /\ Step([Logged(Cur, Throw("onMaxConsecutiveErrors", HookError("onMaxConsecutiveErrors")))
                EXCEPT !.pc = "thrown", !.raised = HookError("onMaxConsecutiveErrors")])

\* A handler whose result is read the wrong way round.
HandlerReturns_Inverted ==
    /\ pc = "handler"
    /\ \E shouldContinue \in BOOLEAN :
          Step(ExecuteAction(
                  Logged(Cur, Ev("return", "handler", NoRequest, NoResult, NoError,
                                 IF shouldContinue THEN 1 ELSE 0)),
                  IF shouldContinue THEN "break" ELSE "continue"))

HandlerReturns ==
    /\ pc = "handler"
    /\ \E shouldContinue \in BOOLEAN :
          Step(ExecuteAction(
                  Logged(Cur, Ev("return", "handler", NoRequest, NoResult, NoError,
                                 IF shouldContinue THEN 1 ELSE 0)),
                  IF shouldContinue THEN "continue" ELSE "break"))

\* A handler whose exception is taken as a break, as onError's is.
HandlerThrows_Breaks ==
    /\ pc = "handler"
    /\ Step(CallOnReturn(Logged(Cur, Throw("handler", HookError("handler")))))

HandlerThrows ==
    /\ pc = "handler"
    /\ Step([Logged(Cur, Throw("handler", HookError("handler")))
                EXCEPT !.pc = "thrown", !.raised = HookError("handler")])

\* onReturn called from the catch block: its exception is not caught.
OnReturnReturns ==
    /\ pc = "onReturn"
    /\ Step([Logged(Cur, Return("onReturn", NoResult)) EXCEPT !.pc = "done"])

OnReturnThrows ==
    /\ pc = "onReturn"
    /\ Step([Logged(Cur, Throw("onReturn", HookError("onReturn")))
                EXCEPT !.pc = "thrown", !.raised = HookError("onReturn")])

Next ==
    \/ ConsumerNext
    \/ ConsumerReturn
    \/ OnPageReturns
    \/ OnPageThrows
    \/ FetchResolves
    \/ FetchRejects
    \/ OnReturnInTryReturns
    \/ OnReturnInTryThrows
    \/ OnErrorReturns
    \/ OnErrorThrows
    \/ OnMaxConsecutiveErrorsReturns
    \/ OnMaxConsecutiveErrorsThrows
    \/ HandlerReturns
    \/ HandlerThrows
    \/ OnReturnReturns
    \/ OnReturnThrows

Spec == Init /\ [][Next]_vars

\* The consumer keeps calling next() while the generator is suspended, and
\* every promise the generator awaits settles: the one of the fetch function
\* and the ones of the hooks and of the decision handler.
Fairness ==
    /\ WF_vars(ConsumerNext)
    /\ WF_vars(FetchResolves \/ FetchRejects)
    /\ WF_vars(OnPageReturns \/ OnPageThrows)
    /\ WF_vars(OnReturnInTryReturns \/ OnReturnInTryThrows)
    /\ WF_vars(OnErrorReturns \/ OnErrorThrows)
    /\ WF_vars(OnMaxConsecutiveErrorsReturns \/ OnMaxConsecutiveErrorsThrows)
    /\ WF_vars(HandlerReturns \/ HandlerThrows)
    /\ WF_vars(OnReturnReturns \/ OnReturnThrows)

FairSpec == Init /\ [][Next]_vars /\ Fairness

TypeOK ==
    /\ pc \in {"suspendedStart", "suspendedYield", "loop", "onPage", "fetching", "onReturnTry",
               "onError", "onMaxConsecutiveErrors", "handler", "onReturn",
               "done", "thrown", "returned"}
    /\ consecutiveErrorCount \in Nat

(***************************************************************************)
(* What a run has done so far, read off the log.                            *)
(***************************************************************************)
Settled(e) == e.ev \in {"return", "throw"}

\* The fetch calls of the run and, aligned with them, how each one settled.
FetchCalls == Calls(log, "fetch")
FetchSettled == SelectSeq(log, LAMBDA e : e.of = "fetch" /\ Settled(e))

RECURSIVE Concat(_)
Concat(pages) ==
    IF pages = <<>> THEN <<>> ELSE Head(pages).res.items \o Concat(Tail(pages))

\* The items of the pages whose fetch succeeded, in fetch order.
FetchedItems == Concat(Events(log, "return", "fetch"))

Threw(of) == \E i \in 1..Len(log) : log[i].ev = "throw" /\ log[i].of = of
FetchFailed == Threw("fetch")

\* No hook and no decision handler has thrown.
HooksReturnNormally == \A i \in 1..Len(log) : log[i].ev = "throw" => log[i].of = "fetch"

\* The consumer has seen the end of the sequence or an exception.
Terminated == pc \in {"done", "thrown"}

NumCalls(of) == Len(Calls(log, of))
CallsAfter(i, of) == {j \in (i + 1)..Len(log) : log[j].ev = "call" /\ log[j].of = of}

(***************************************************************************)
(* C1: when a draining consumer has seen the run end, normally or with an   *)
(* exception, the items it received are exactly the items of the pages      *)
(* whose fetch succeeded, concatenated in fetch order; a failed fetch adds  *)
(* nothing.  While the run is going on, what was received is that           *)
(* concatenation up to the items of the current page not yet pulled.        *)
(***************************************************************************)
C1_DeliveredIsConcatOfFetchedPages ==
    /\ Terminated => delivered = FetchedItems
    /\ Len(delivered) <= Len(FetchedItems)
    /\ delivered = SubSeq(FetchedItems, 1, Len(delivered))
    /\ pc # "suspendedYield" /\ pc # "returned" => delivered = FetchedItems

C1_Witness ==
    /\ pc = "done"
    /\ FetchFailed
    /\ Len(FetchSettled) = 2
    /\ Len(delivered) = 2

(***************************************************************************)
(* The fetch function of the tests: a source of n items, numbered 1..n,     *)
(* served by position.  ServesSlices(n) says that every fetch of the run    *)
(* so far resolved with items[base, base + limit) and                       *)
(* hasNextPage = (base + limit < n), base being the request's offset or      *)
(* (page - 1) * limit.                                                       *)
(***************************************************************************)
Min(a, b) == IF a < b THEN a ELSE b
Max(a, b) == IF a > b THEN a ELSE b
Ceil(a, b) == (a + b - 1) \div b
Iota(n) == [k \in 1..n |-> k]

\* Every item count a run of at most MaxFetches pages can serve.
ItemCounts == 0..(MaxFetches * MaxLimit)

ServesSlices(n) ==
    \A i \in 1..Len(FetchSettled) :
        LET base == Base(FetchCalls[i].req)
            e == FetchSettled[i]
        IN /\ e.ev = "return"
           /\ e.res.items = PageItems(base, Max(0, Min(options.limit, n - base)))
           /\ e.res.hasNextPage = (base + options.limit < n)

OffsetFromZero ==
    /\ options.strategy = "offset"
    /\ Coalesce(options.initialOffset, Num(0)) = Num(0)

PageFromOne ==
    /\ options.strategy = "page"
    /\ Coalesce(options.initialPage, Num(1)) = Num(1)

(***************************************************************************)
(* C2 as claimed: offset strategy from offset 0 over a never-failing slice  *)
(* server of N items (hooks returning normally): the drained run yields    *)
(* items 1..N in order and calls fetch exactly ceil(N/L) times, with        *)
(* offsets 0, L, 2L, ...                                                     *)
(***************************************************************************)
C2_Original ==
    \A n \in ItemCounts :
        (pc = "done" /\ OffsetFromZero /\ ServesSlices(n) /\ HooksReturnNormally)
        => /\ delivered = Iota(n)
           /\ Len(FetchCalls) = Ceil(n, options.limit)
           /\ \A i \in 1..Len(FetchCalls) :
                 FetchCalls[i].req.offset = Num((i - 1) * options.limit)

(***************************************************************************)
(* C2 as amended: the same, with the number of fetch calls ceil(N/L) for    *)
(* N >= 1 and exactly one call (offset 0, an empty page) for N = 0.         *)
(***************************************************************************)
C2_OffsetServesAllItems ==
    \A n \in ItemCounts :
        (pc = "done" /\ OffsetFromZero /\ ServesSlices(n) /\ HooksReturnNormally)
        => /\ delivered = Iota(n)
           /\ Len(FetchCalls) = IF n = 0 THEN 1 ELSE Ceil(n, options.limit)
           /\ \A i \in 1..Len(FetchCalls) :
                 FetchCalls[i].req.offset = Num((i - 1) * options.limit)

C2_Witness ==
    /\ pc = "done"
    /\ OffsetFromZero
    /\ options.limit = 2
    /\ ServesSlices(3)
    /\ HooksReturnNormally
    /\ Len(FetchCalls) = 2

(***************************************************************************)
(* C3: page strategy from page 1 over a never-failing slice server of N     *)
(* items (hooks returning normally): the drained run yields items 1..N in   *)
(* order; the i-th request carries page = i whatever the limit, and carries *)
(* limit and page and neither offset nor cursor.                            *)
(***************************************************************************)
C3_PageServesAllItems ==
    \A n \in ItemCounts :
        (PageFromOne /\ ServesSlices(n) /\ HooksReturnNormally)
        => /\ pc = "done" => delivered = Iota(n)
           /\ \A i \in 1..Len(FetchCalls) :
                 FetchCalls[i].req = [limit |-> Num(options.limit), offset |-> Absent,
                                      page |-> Num(i), cursor |-> Absent]

C3_Witness ==
    /\ pc = "done"
    /\ PageFromOne
    /\ options.limit = 2
    /\ ServesSlices(4)
    /\ HooksReturnNormally
    /\ FetchCalls[2].req.page = Num(2)

(***************************************************************************)
(* C4: calls never overlap.  At most one fetch is in flight; and when a     *)
(* fetch is issued, every earlier call of the callback, of a hook or of the *)
(* decision handler has settled, and every item of the last successful page *)
(* has been handed to the consumer.                                          *)
(***************************************************************************)
\* From position i on, with open calls in flight before it: a call is issued
\* and an item is yielded only when nothing is in flight, and what settles
\* is the one call in flight.
RECURSIVE NoOverlapFrom(_, _)
NoOverlapFrom(i, open) ==
    IF i > Len(log) THEN TRUE
    ELSE CASE log[i].ev = "call" -> open = 0 /\ NoOverlapFrom(i + 1, 1)
           [] Settled(log[i]) -> open = 1 /\ NoOverlapFrom(i + 1, 0)
           [] log[i].ev = "yield" -> open = 0 /\ NoOverlapFrom(i + 1, 0)

\* The items yielded between positions j and i of the log.
YieldedBetween(j, i) ==
    LET ys == SelectSeq(SubSeq(log, j + 1, i - 1), LAMBDA e : e.ev = "yield")
    IN [k \in 1..Len(ys) |-> ys[k].n]

\* The last successful fetch before position i, if there is one.
LastPageBefore(i) ==
    {j \in 1..(i - 1) :
        /\ log[j].ev = "return" /\ log[j].of = "fetch"
        /\ \A k \in (j + 1)..(i - 1) : ~(log[k].ev = "return" /\ log[k].of = "fetch")}

C4_OneFetchAtATime ==
    /\ NoOverlapFrom(1, 0)
    /\ \A i \in 1..Len(log) :
          (log[i].ev = "call" /\ log[i].of = "fetch") =>
              \A j \in LastPageBefore(i) : YieldedBetween(j, i) = log[j].res.items

C4_Witness ==
    /\ pc = "fetching"
    /\ options.hooks = HookNames
    /\ NumCalls("fetch") = 2
    /\ NumCalls("onPage") = 2
    /\ Len(delivered) = 2

(***************************************************************************)
(* Positions of the log.                                                    *)
(***************************************************************************)
ThrowsAt(of) == {i \in 1..Len(log) : log[i].ev = "throw" /\ log[i].of = of}
ReturnsAt(of) == {i \in 1..Len(log) : log[i].ev = "return" /\ log[i].of = of}
IsCallAt(i, of) == i <= Len(log) /\ log[i].ev = "call" /\ log[i].of = of
LastEvent == log[Len(log)]
PolicyIs(type) == options.errorPolicy.type = type
IfSet(h, n) == IF Has(h) THEN n ELSE 0

\* The failed fetches up to position i with no successful fetch after them.
FailuresInARow(i) ==
    Cardinality({j \in ThrowsAt("fetch") :
                    j <= i /\ \A k \in ReturnsAt("fetch") : k < j \/ k > i})

(***************************************************************************)
(* C5: under the throw policy a fetch failure ends the run at once: the     *)
(* consumer gets the error the fetch rejected with, after all items of the  *)
(* earlier pages; nothing is called after the failed fetch, and onError,    *)
(* onMaxConsecutiveErrors and onReturn are not called in the run.           *)
(***************************************************************************)
C5_ThrowPolicyRaisesOriginalError ==
    (PolicyIs("throw") /\ FetchFailed)
    => /\ pc = "thrown"
       /\ LastEvent = Throw("fetch", FetchError(NumCalls("fetch")))
       /\ raised = LastEvent.err
       /\ Cardinality(ThrowsAt("fetch")) = 1
       /\ delivered = FetchedItems
       /\ NumCalls("onError") = 0
       /\ NumCalls("onMaxConsecutiveErrors") = 0
       /\ NumCalls("onReturn") = 0

C5_Witness ==
    /\ PolicyIs("throw")
    /\ options.hooks = HookNames
    /\ pc = "thrown"
    /\ raised = FetchError(2)
    /\ Len(delivered) >= 1

(***************************************************************************)
(* C6: under the break policy (onReturn returning normally) the first       *)
(* fetch failure is the last fetch of the run: the items of the earlier     *)
(* pages were all delivered, onError if set is called once, with the error, *)
(* onReturn if set is called exactly once, and the consumer sees the        *)
(* sequence end normally.                                                    *)
(***************************************************************************)
C6_BreakPolicyStopsAtFirstFailure ==
    (PolicyIs("break") /\ FetchFailed /\ ~Threw("onReturn"))
    => /\ Cardinality(ThrowsAt("fetch")) = 1
       /\ \A f \in ThrowsAt("fetch") :
             /\ CallsAfter(f, "fetch") = {}
             /\ Has("onError") => log[f + 1] = Call("onError", NoRequest, log[f].err, 0)
       /\ delivered = FetchedItems
       /\ NumCalls("onError") = IfSet("onError", 1)
       /\ NumCalls("onReturn") <= 1
       /\ pc \in {"onError", "onReturn", "done"}
       /\ raised = NoError
       /\ pc = "done" => NumCalls("onReturn") = IfSet("onReturn", 1)

C6_Witness ==
    /\ PolicyIs("break")
    /\ options.hooks = HookNames
    /\ FetchFailed
    /\ pc = "done"
    /\ Len(delivered) >= 1
    /\ NumCalls("onReturn") = 1

(***************************************************************************)
(* C7: under the continue policy with maxErrorCount = K, when every fetch   *)
(* fails (hooks returning normally), the run ends normally with no item,    *)
(* after K fetches, K calls of onError and one call of                       *)
(* onMaxConsecutiveErrors; it never fetches more than K times.              *)
(***************************************************************************)
EveryFetchFailed == \A i \in 1..Len(FetchSettled) : FetchSettled[i].ev = "throw"

C7_ContinuePolicyGivesUpAfterK ==
    (PolicyIs("continue") /\ EveryFetchFailed /\ HooksReturnNormally)
    => /\ NumCalls("fetch") <= options.errorPolicy.maxErrorCount
       /\ NumCalls("onError") <= IfSet("onError", options.errorPolicy.maxErrorCount)
       /\ NumCalls("onMaxConsecutiveErrors") <= 1
       /\ delivered = <<>>
       /\ pc # "thrown"
       /\ pc = "done" =>
             /\ Len(FetchSettled) = options.errorPolicy.maxErrorCount
             /\ NumCalls("onError") = IfSet("onError", options.errorPolicy.maxErrorCount)
             /\ NumCalls("onMaxConsecutiveErrors") = IfSet("onMaxConsecutiveErrors", 1)

C7_Witness ==
    /\ PolicyIs("continue")
    /\ options.errorPolicy.maxErrorCount = 2
    /\ options.hooks = HookNames
    /\ EveryFetchFailed
    /\ HooksReturnNormally
    /\ pc = "done"
    /\ NumCalls("onError") = 2

(***************************************************************************)
(* C8: when the policy answers a fetch failure with a stop that is not a    *)
(* throw (break; continue with the count at maxErrorCount; custom with the  *)
(* handler returning false) and no hook throws, the consumer sees no        *)
(* exception: the run ends normally, with the items fetched so far          *)
(* delivered and no further fetch.                                           *)
(***************************************************************************)
HandlerSaid(b) ==
    \E j \in ReturnsAt("handler") :
        /\ log[j].n = (IF b THEN 1 ELSE 0)
        /\ \A k \in ReturnsAt("handler") : k <= j

StoppedByPolicy ==
    /\ FetchFailed
    /\ FetchSettled[Len(FetchSettled)].ev = "throw"
    /\ Len(FetchSettled) = Len(FetchCalls)
    /\ \/ PolicyIs("break")
       \/ PolicyIs("continue") /\ consecutiveErrorCount >= options.errorPolicy.maxErrorCount
       \/ PolicyIs("custom") /\ pc # "handler" /\ HandlerSaid(FALSE)

C8_PolicyStopIsNotAnException ==
    (StoppedByPolicy /\ HooksReturnNormally)
    => /\ pc \in {"onError", "onMaxConsecutiveErrors", "onReturn", "done"}
       /\ raised = NoError
       /\ delivered = FetchedItems

C8_Witness ==
    /\ PolicyIs("custom")
    /\ options.hooks = HookNames
    /\ StoppedByPolicy
    /\ HooksReturnNormally
    /\ pc = "done"
    /\ Len(delivered) >= 1

(***************************************************************************)
(* C9: under the break and continue policies, when onError throws, the      *)
(* exception is swallowed: onReturn if set is called next, no fetch and no  *)
(* onMaxConsecutiveErrors call follows, and the run ends normally once       *)
(* onReturn has returned; the only exception the consumer can then see is    *)
(* one thrown by onReturn itself.                                            *)
(***************************************************************************)
C9_OnErrorThrowEndsSilently ==
    ((PolicyIs("break") \/ PolicyIs("continue")) /\ Threw("onError"))
    => /\ Cardinality(ThrowsAt("onError")) = 1
       /\ \A i \in ThrowsAt("onError") :
             /\ CallsAfter(i, "fetch") = {}
             /\ Has("onReturn") => IsCallAt(i + 1, "onReturn")
             /\ ~Has("onReturn") => i = Len(log)
       /\ NumCalls("onMaxConsecutiveErrors") = 0
       /\ pc \in {"onReturn", "done", "thrown"}
       /\ raised # HookError("onError")
       /\ pc = "thrown" => LastEvent = Throw("onReturn", HookError("onReturn"))

C9_Witness ==
    /\ PolicyIs("continue")
    /\ options.hooks = HookNames
    /\ Threw("onError")
    /\ ~Threw("onReturn")
    /\ pc = "done"
    /\ NumCalls("onReturn") = 1

(***************************************************************************)
(* C10: under the custom policy every fetch failure is followed by one call *)
(* of the decision handler, with the error and (no hook having thrown) the  *)
(* number of failed fetches in a row; after true the loop goes on to the    *)
(* next fetch, after false no fetch follows, onReturn if set is called and  *)
(* the run ends normally once it has returned; onError and                   *)
(* onMaxConsecutiveErrors are never called.                                  *)
(***************************************************************************)
C10_CustomPolicyAsksHandler ==
    PolicyIs("custom")
    => /\ NumCalls("onError") = 0
       /\ NumCalls("onMaxConsecutiveErrors") = 0
       /\ \A i \in ThrowsAt("fetch") :
             /\ IsCallAt(i + 1, "handler")
             /\ log[i + 1].err = log[i].err
             /\ HooksReturnNormally => log[i + 1].n = FailuresInARow(i)
       /\ HooksReturnNormally => NumCalls("handler") = Cardinality(ThrowsAt("fetch"))
       /\ \A j \in ReturnsAt("handler") :
             IF log[j].n = 1
             THEN \/ pc = "loop" /\ j = Len(log)
                  \/ /\ IsCallAt(j + 1, IF Has("onPage") THEN "onPage" ELSE "fetch")
                     /\ \/ CallsAfter(j, "fetch") # {}
                        \/ pc = "onPage"
                        \/ LastEvent = Throw("onPage", HookError("onPage"))
             ELSE /\ CallsAfter(j, "fetch") = {}
                  /\ CallsAfter(j, "handler") = {}
                  /\ Has("onReturn") => IsCallAt(j + 1, "onReturn")
                  /\ pc \in {"onReturn", "done", "thrown"}
                  /\ pc = "thrown" => LastEvent = Throw("onReturn", HookError("onReturn"))

C10_Witness ==
    /\ PolicyIs("custom")
    /\ options.hooks = HookNames
    /\ \E j \in ReturnsAt("handler") : log[j].n = 1
    /\ HandlerSaid(FALSE)
    /\ NumCalls("fetch") = 2
    /\ NumCalls("onReturn") = 1
    /\ pc = "done"

(***************************************************************************)
(* C11: at every fetch failure the consecutive error count handed to the    *)
(* decision handler and to onMaxConsecutiveErrors is the number of failed   *)
(* fetches since the most recent successful fetch (since the start if none  *)
(* succeeded).  The catch block also counts an exception of onReturn        *)
(* thrown after the last page, so the count can exceed that number.         *)
(***************************************************************************)
ReportsAt ==
    {j \in 1..Len(log) :
        /\ log[j].ev = "call"
        /\ log[j].of \in {"handler", "onMaxConsecutiveErrors"}
        /\ log[j].err.src = "fetch"}

C11_Original ==
    \A j \in ReportsAt : log[j].n = FailuresInARow(j)

(***************************************************************************)
(* C12: under the offset strategy the i-th fetch request carries            *)
(* offset = initialOffset + (i - 1) * limit (and limit, and neither page    *)
(* nor cursor), whether the earlier fetches succeeded or failed and were    *)
(* continued past: no offset is requested twice, a failed page contributes  *)
(* no item, and the items of the pages fetched after it are delivered.      *)
(***************************************************************************)
InitialOffset == Coalesce(options.initialOffset, Num(0)).v

C12_OffsetAdvancesPastFailure ==
    options.strategy = "offset"
    => /\ \A i \in 1..Len(FetchCalls) :
             FetchCalls[i].req =
                 [limit |-> Num(options.limit),
                  offset |-> Num(InitialOffset + (i - 1) * options.limit),
                  page |-> Absent, cursor |-> Absent]
       /\ \A i, j \in 1..Len(FetchCalls) :
             i # j => FetchCalls[i].req.offset # FetchCalls[j].req.offset
       /\ pc = "loop" =>
             Params(Cur).offset = Num(InitialOffset + Len(FetchCalls) * options.limit)
       /\ pc \in {"done", "thrown", "loop"} => delivered = FetchedItems

C12_Witness ==
    /\ options.strategy = "offset"
    /\ options.initialOffset = Num(1)
    /\ options.limit = 2
    /\ PolicyIs("continue")
    /\ Len(FetchSettled) = 2
    /\ FetchSettled[1].ev = "throw"
    /\ FetchSettled[2].ev = "return"
    /\ FetchCalls[2].req.offset = Num(3)
    /\ delivered = <<4, 5>>
    /\ pc = "done"

(***************************************************************************)
(* C13: under the cursor strategy a failed fetch that the policy continues  *)
(* past leaves the cursor alone: the next request carries the cursor of the *)
(* failed one.  Every request carries the nextCursor of the last successful *)
(* page that had a next page (the initial cursor if there was none), read   *)
(* through the adapter's ?? null.                                            *)
(***************************************************************************)
FetchCallsAt == {i \in 1..Len(log) : IsCallAt(i, "fetch")}

\* The successful fetches before position i that moved the pointer.
AdvancedBefore(i) ==
    {j \in 1..(i - 1) :
        log[j].ev = "return" /\ log[j].of = "fetch" /\ log[j].res.hasNextPage}

CursorBefore(i) ==
    IF AdvancedBefore(i) = {}
    THEN options.initialCursor
    ELSE log[CHOOSE j \in AdvancedBefore(i) : \A k \in AdvancedBefore(i) : k <= j]
            .res.nextCursor

\* The request the next fetch carries.
NextRequest == AdaptedCallback(Params(Cur))

C13_CursorKeptOnContinue ==
    options.strategy = "cursor"
    => /\ \A k \in 1..Len(FetchSettled) :
             FetchSettled[k].ev = "throw" =>
                 /\ k < Len(FetchCalls) =>
                       FetchCalls[k + 1].req.cursor = FetchCalls[k].req.cursor
                 /\ (k = Len(FetchCalls) /\ pc = "loop") =>
                       NextRequest.cursor = FetchCalls[k].req.cursor
       /\ \A i \in FetchCallsAt :
             log[i].req = [limit |-> Num(options.limit), offset |-> Absent,
                           page |-> Absent,
                           cursor |-> Coalesce(CursorBefore(i), Null)]

C13_Witness ==
    /\ options.strategy = "cursor"
    /\ options.limit = 2
    /\ PolicyIs("custom")
    /\ Len(FetchSettled) = 2
    /\ FetchSettled[1].ev = "return"
    /\ FetchSettled[1].res.nextCursor = Str(2)
    /\ FetchSettled[2].ev = "throw"
    /\ FetchCalls[2].req.cursor = Str(2)
    /\ pc = "loop"
    /\ NextRequest.cursor = Str(2)

(***************************************************************************)
(* C14: under the cursor strategy a successful page with hasNextPage = true *)
(* and a nextCursor that is undefined or null does not move the cursor: the *)
(* next request carries the cursor of the request that just succeeded.      *)
(* The generator assigns nextCursor whatever it is, so the next request     *)
(* carries null.                                                             *)
(***************************************************************************)
C14_Original ==
    options.strategy = "cursor"
    => \A k \in 1..Len(FetchSettled) :
          (/\ FetchSettled[k].ev = "return"
           /\ FetchSettled[k].res.hasNextPage
           /\ FetchSettled[k].res.nextCursor \in {Undefined, Null}
           /\ k < Len(FetchCalls))
          => FetchCalls[k + 1].req.cursor = FetchCalls[k].req.cursor

(***************************************************************************)
(* C15: among successful fetches only hasNextPage = false ends the run.     *)
(* After a page with hasNextPage = true, whatever its size, its items are   *)
(* yielded and the next thing the generator does is the next fetch (onPage  *)
(* first if set); after a page with hasNextPage = false no fetch follows    *)
(* and the sequence ends after its items.                                   *)
(***************************************************************************)
PagesAt(hasNext) ==
    {j \in ReturnsAt("fetch") : log[j].res.hasNextPage = hasNext}

\* The items of the page settled at position j are what is yielded next.
ItemsFollow(j) ==
    \A k \in 1..Len(log[j].res.items) :
        j + k <= Len(log) => log[j + k] = Yield(log[j].res.items[k])

\* The position after the page settled at j and its items.
AfterPage(j) == j + Len(log[j].res.items) + 1

C15_NextPageFetched ==
    \A j \in PagesAt(TRUE) :
        /\ ItemsFollow(j)
        /\ IF AfterPage(j) <= Len(log)
           THEN IsCallAt(AfterPage(j), IF Has("onPage") THEN "onPage" ELSE "fetch")
           ELSE pc \in {"suspendedYield", "returned", "loop"}

C15_Original ==
    /\ C15_NextPageFetched
    /\ \A j \in PagesAt(FALSE) :
          /\ ItemsFollow(j)
          /\ CallsAfter(j, "fetch") = {}
          /\ \A k \in AfterPage(j)..Len(log) : log[k].ev # "yield"

(***************************************************************************)
(* C16: the generator runs only when it is pulled.  While it is suspended   *)
(* (before the first next() or at a yield) nothing happens but what the     *)
(* consumer does; when the consumer abandons the iteration the generator    *)
(* completes with no call of the callback or of a hook and no further item, *)
(* and nothing happens afterwards.                                           *)
(***************************************************************************)
C16_NothingRunsUnpulled ==
    [][/\ pc # "returned"
       /\ pc \in {"suspendedStart", "suspendedYield"} => (ConsumerNext \/ ConsumerReturn)
       /\ ConsumerReturn => /\ pc' = "returned"
                            /\ log' = log
                            /\ delivered' = delivered]_vars

\* The consumer stopped in the middle of a page that has a next page.
C16_Witness ==
    /\ pc = "returned"
    /\ options.hooks = HookNames
    /\ result.hasNextPage
    /\ index = 1
    /\ Len(result.items) = 2
    /\ LastEvent.ev = "yield"
    /\ NumCalls("fetch") = 1

(***************************************************************************)
(* The sequence operators and the terminal collectors.  A sequence is a     *)
(* chain of stages: a source at the bottom (an async iterable that yields   *)
(* the elements of a list, or the generator of paginate() over a fetch      *)
(* function that serves a list of n items by position), then the async      *)
(* generators filter, map, take and skip and the wrapper                    *)
(* FluentAsyncIterable.  Pull is one next() on a stage, Close one return(); *)
(* the run c carries each stage's locals, the source's position, and the    *)
(* order in which the source was pulled and the callbacks were called.      *)
(***************************************************************************)
MaxLen == 3          \* a source list has at most MaxLen elements
MaxCount == 2        \* take and skip counts range up to MaxCount

Values == {1, 2}
Predicates == {"even", "odd"}
Transforms == {"tenfoldPlusIndex"}
KeyFns == {"parity"}
Reducers == {"doublePlusItem"}

\* predicate(item, index), transform(item, index), keyFn(item),
\* reducer(accumulator, item, index)
Truthy(predicate, item, idx) ==
    IF predicate = "even" THEN item % 2 = 0 ELSE item % 2 = 1
Transformed(transform, item, idx) == item * 10 + idx
Key(keyFn, item) == item % 2
Reduced(reducer, accumulator, item, idx) == 2 * accumulator + item

RECURSIVE SeqsUpTo(_, _)
SeqsUpTo(S, n) ==
    IF n = 0 THEN {<<>>}
    ELSE LET shorter == SeqsUpTo(S, n - 1)
         IN shorter \cup {Append(q, x) : q \in shorter, x \in S}

Stage(op, arg) == [op |-> op, arg |-> arg]

\* The sources: a list of values, one of them twice at most MaxLen long, or
\* paginate() over n items.
ListSources == {<<Stage("source", q)>> : q \in SeqsUpTo(Values, MaxLen)}
PagedSources == {<<Stage("paginate", n)>> : n \in 0..(MaxFetches * MaxLimit)}

\* One entry of a run's log: next() or return() on the source, or a call of
\* a callback with (item, index).
OpEv(ev, of, item, idx) == [ev |-> ev, of |-> of, item |-> item, idx |-> idx]

\* The result of next(): done, or a value (0 stands for undefined).
IterDone == [done |-> TRUE, value |-> 0]
IterValue(v) == [done |-> FALSE, value |-> v]

\* The run of a chain before anything was pulled.
Start(chain) ==
    [pulls |-> 0, returned |-> FALSE, pos |-> 0, gen |-> Cur,
     st |-> [i \in 1..Len(chain) |-> [pc |-> "start", n |-> 0]],
     log |-> <<>>, r |-> IterDone]

\* next() on a list source.
SourceNext(chain, c) ==
    LET list == chain[1].arg
    IN IF c.pos < Len(list)
       THEN [c EXCEPT !.pulls = @ + 1, !.pos = @ + 1,
                      !.log = Append(@, OpEv("next", "source", list[c.pos + 1], c.pos)),
                      !.r = IterValue(list[c.pos + 1])]
       ELSE [c EXCEPT !.pulls = @ + 1,
                      !.log = Append(@, OpEv("next", "source", 0, c.pos)),
                      !.r = IterDone]

\* The fetch function of the tests over n items: the slice at the request's
\* position, with a next page while items remain after it.
SliceResult(req, n) ==
    [items |-> PageItems(Base(req), IF n - Base(req) < 0 THEN 0
                                    ELSE IF n - Base(req) < options.limit
                                         THEN n - Base(req) ELSE options.limit),
     hasNextPage |-> Base(req) + options.limit < n,
     nextCursor |-> IF options.strategy = "cursor"
                    THEN Str(Base(req) + options.limit) ELSE Undefined]

\* The generator runs from an await to the next yield or to its end: the
\* hooks return, the fetch function serves its slice.
RECURSIVE Serve(_, _)
Serve(m, n) ==
    CASE m.pc = "onPage" ->
            Serve(CallCallback(Logged(m, Return("onPage", NoResult))), n)
      [] m.pc = "fetching" ->
            LET res == SliceResult(Calls(m.log, "fetch")[NumFetches(m.log)].req, n)
            IN Serve(YieldStar([Logged(m, Return("fetch", res))
                                   EXCEPT !.result = res, !.index = 0]), n)
      [] m.pc = "onReturnTry" ->
            [Logged(m, Return("onReturn", NoResult)) EXCEPT !.pc = "done"]
      [] OTHER -> m

\* next() on the generator of paginate(): m is the generator at its next
\* suspension.
Resumed(c, m) ==
    [c EXCEPT !.pulls = @ + 1, !.gen = m,
              !.log = Append(@, OpEv("next", "source",
                                     IF m.pc = "suspendedYield"
                                     THEN m.delivered[Len(m.delivered)] ELSE 0,
                                     c.pulls)),
              !.r = IF m.pc = "suspendedYield"
                    THEN IterValue(m.delivered[Len(m.delivered)]) ELSE IterDone]

\* A generator that starts over when next() is called after it has completed.
GeneratorNext_StartsOver(chain, c) ==
    Resumed(c, IF c.gen.pc = "suspendedYield"
               THEN Serve(YieldStar(c.gen), chain[1].arg)
               ELSE Serve(LoopTop(c.gen), chain[1].arg))

GeneratorNext(chain, c) ==
    Resumed(c, CASE c.gen.pc = "suspendedStart" -> Serve(LoopTop(c.gen), chain[1].arg)
                 [] c.gen.pc = "suspendedYield" -> Serve(YieldStar(c.gen), chain[1].arg)
                 [] OTHER -> c.gen)

\* A stage's generator has finished, or is suspended at its yield.
Finished(c, i) == [c EXCEPT !.st[i].pc = "done", !.r = IterDone]
Yielded(c, i, v) == [c EXCEPT !.st[i].pc = "yield", !.r = IterValue(v)]
Called(c, of, item, idx) == [c EXCEPT !.log = Append(@, OpEv("call", of, item, idx))]

\* The standalone operators and the wrapper, as stages on top of a chain.
filter(chain, predicate) == Append(chain, Stage("filter", predicate))
map(chain, transform) == Append(chain, Stage("map", transform))
take(chain, count) == Append(chain, Stage("take", count))
skip(chain, count) == Append(chain, Stage("skip", count))
FluentAsyncIterable(chain) == Append(chain, Stage("fluent", 0))

\* this.iterable
Wrapped(this) == SubSeq(this, 1, Len(this) - 1)

RECURSIVE Pull(_, _, _)
RECURSIVE Close(_, _, _)
RECURSIVE FilterNext(_, _, _)
RECURSIVE SkipNext(_, _, _)

\* A filter whose index counts the elements it has yielded.
RECURSIVE FilterNext_IndexOfYielded(_, _, _)
FilterNext_IndexOfYielded(chain, c, i) ==
    LET p == Pull(chain, c, i - 1)
        q == Called(p, "filter", p.r.value, p.st[i].n)
    IN IF p.r.done THEN Finished(p, i)
       ELSE IF Truthy(chain[i].arg, p.r.value, p.st[i].n)
            THEN Yielded([q EXCEPT !.st[i].n = @ + 1], i, p.r.value)
            ELSE FilterNext_IndexOfYielded(chain, q, i)

\* filter: for await (item) { if (await predicate(item, index++)) yield item }
FilterNext(chain, c, i) ==
    LET p == Pull(chain, c, i - 1)
        q == Called([p EXCEPT !.st[i].n = @ + 1], "filter", p.r.value, p.st[i].n)
    IN IF p.r.done THEN Finished(p, i)
       ELSE IF Truthy(chain[i].arg, p.r.value, p.st[i].n)
            THEN Yielded(q, i, p.r.value)
            ELSE FilterNext(chain, q, i)

\* map: for await (item) { yield await transform(item, index++) }
MapNext(chain, c, i) ==
    LET p == Pull(chain, c, i - 1)
        q == Called([p EXCEPT !.st[i].n = @ + 1], "map", p.r.value, p.st[i].n)
    IN IF p.r.done THEN Finished(p, i)
       ELSE Yielded(q, i, Transformed(chain[i].arg, p.r.value, p.st[i].n))

\* A take that tests its count only after it has pulled the next element.
TakeNext_PullsOneMore(chain, c, i) ==
    IF c.st[i].pc = "start" /\ chain[i].arg <= 0 THEN Finished(c, i)
    ELSE LET p == Pull(chain, c, i - 1)
         IN IF p.r.done THEN Finished(p, i)
            ELSE IF p.st[i].n >= chain[i].arg
                 THEN Finished(Close(chain, p, i - 1), i)
                 ELSE Yielded([p EXCEPT !.st[i].n = @ + 1], i, p.r.value)

\* take: if (count <= 0) return;
\*       for await (item) { yield item; if (++taken >= count) break }
TakeNext(chain, c, i) ==
    IF c.st[i].pc = "start"
    THEN IF chain[i].arg <= 0 THEN Finished(c, i)
         ELSE LET p == Pull(chain, c, i - 1)
              IN IF p.r.done THEN Finished(p, i) ELSE Yielded(p, i, p.r.value)
    ELSE LET t == [c EXCEPT !.st[i].n = @ + 1]
         IN IF t.st[i].n >= chain[i].arg
            THEN Finished(Close(chain, t, i - 1), i)
            ELSE LET p == Pull(chain, t, i - 1)
                 IN IF p.r.done THEN Finished(p, i) ELSE Yielded(p, i, p.r.value)

\* A skip that discards one element more than asked.
RECURSIVE SkipNext_OneMore(_, _, _)
SkipNext_OneMore(chain, c, i) ==
    LET p == Pull(chain, c, i - 1)
        q == [p EXCEPT !.st[i].n = @ + 1]
    IN IF p.r.done THEN Finished(p, i)
       ELSE IF p.st[i].n <= chain[i].arg
            THEN SkipNext_OneMore(chain, q, i)
            ELSE Yielded(q, i, p.r.value)

\* skip: for await (item) { if (skipped++ < count) continue; yield item }
SkipNext(chain, c, i) ==
    LET p == Pull(chain, c, i - 1)
        q == [p EXCEPT !.st[i].n = @ + 1]
    IN IF p.r.done THEN Finished(p, i)
       ELSE IF p.st[i].n < chain[i].arg
            THEN SkipNext(chain, q, i)
            ELSE Yielded(q, i, p.r.value)

\* next() on stage i of the chain.  The wrapper's iterator is the iterator
\* of the iterable it wraps; a generator that has finished stays finished.
Pull(chain, c, i) ==
    CASE chain[i].op = "source" -> SourceNext(chain, c)
      [] chain[i].op = "paginate" -> GeneratorNext(chain, c)
      [] chain[i].op = "fluent" -> Pull(chain, c, i - 1)
      [] c.st[i].pc = "done" /\ chain[i].op \in {"filter", "map", "take", "skip"} ->
            Finished(c, i)
      [] c.st[i].pc # "done" /\ chain[i].op = "filter" -> FilterNext(chain, c, i)
      [] c.st[i].pc # "done" /\ chain[i].op = "map" -> MapNext(chain, c, i)
      [] c.st[i].pc # "done" /\ chain[i].op = "take" -> TakeNext(chain, c, i)
      [] c.st[i].pc # "done" /\ chain[i].op = "skip" -> SkipNext(chain, c, i)

\* return() on stage i: a generator suspended at its yield leaves its
\* for-await loop, which closes the stage below; one that has not started or
\* has finished just completes.
Close(chain, c, i) ==
    CASE chain[i].op = "source" ->
            [c EXCEPT !.returned = TRUE,
                      !.log = Append(@, OpEv("return", "source", 0, c.pos))]
      [] chain[i].op = "paginate" ->
            [c EXCEPT !.returned = TRUE,
                      !.gen = IF @.pc \in {"suspendedStart", "suspendedYield"}
                              THEN GeneratorReturn(@) ELSE @,
                      !.log = Append(@, OpEv("return", "source", 0, c.pulls))]
      [] chain[i].op = "fluent" -> Close(chain, c, i - 1)
      [] chain[i].op \in {"filter", "map", "take", "skip"} ->
            IF c.st[i].pc = "yield"
            THEN [Close(chain, c, i - 1) EXCEPT !.st[i].pc = "done"]
            ELSE [c EXCEPT !.st[i].pc = "done"]

\* What a collector hands back, and what the run did to the source.
Collected(value, c) ==
    [value |-> value, pulls |-> c.pulls, returned |-> c.returned, log |-> c.log,
     fetches |-> NumFetches(c.gen.log), onReturns |-> Len(Calls(c.gen.log, "onReturn")),
     gen |-> c.gen.pc]

RECURSIVE ToArrayLoop(_, _, _)
ToArrayLoop(chain, c, acc) ==
    LET p == Pull(chain, c, Len(chain))
    IN IF p.r.done THEN Collected(acc, p)
       ELSE ToArrayLoop(chain, p, Append(acc, p.r.value))

\* A toSet that drops a value when it meets it again.
RECURSIVE ToSetLoop_DropsRepeated(_, _, _)
ToSetLoop_DropsRepeated(chain, c, acc) ==
    LET p == Pull(chain, c, Len(chain))
    IN IF p.r.done THEN Collected(acc, p)
       ELSE ToSetLoop_DropsRepeated(chain, p,
                IF p.r.value \in acc THEN acc \ {p.r.value} ELSE acc \cup {p.r.value})

RECURSIVE ToSetLoop(_, _, _)
ToSetLoop(chain, c, acc) ==
    LET p == Pull(chain, c, Len(chain))
    IN IF p.r.done THEN Collected(acc, p)
       ELSE ToSetLoop(chain, p, acc \cup {p.r.value})

\* A toMap that keeps the entry a key already has.
RECURSIVE ToMapLoop_FirstWins(_, _, _, _)
ToMapLoop_FirstWins(chain, c, keyFn, acc) ==
    LET p == Pull(chain, c, Len(chain))
    IN IF p.r.done THEN Collected(acc, p)
       ELSE ToMapLoop_FirstWins(chain, p, keyFn,
                                acc @@ (Key(keyFn, p.r.value) :> p.r.value))

\* result.set(key, item): the entry of key is replaced.
RECURSIVE ToMapLoop(_, _, _, _)
ToMapLoop(chain, c, keyFn, acc) ==
    LET p == Pull(chain, c, Len(chain))
    IN IF p.r.done THEN Collected(acc, p)
       ELSE ToMapLoop(chain, p, keyFn, (Key(keyFn, p.r.value) :> p.r.value) @@ acc)

RECURSIVE ForEachLoop(_, _, _)
ForEachLoop(chain, c, idx) ==
    LET p == Pull(chain, c, Len(chain))
    IN IF p.r.done THEN Collected(0, p)
       ELSE ForEachLoop(chain, Called(p, "forEach", p.r.value, idx), idx + 1)

\* A reduce that hands the reducer (item, accumulator, index).
RECURSIVE ReduceLoop_ArgumentsSwapped(_, _, _, _, _)
ReduceLoop_ArgumentsSwapped(chain, c, reducer, accumulator, idx) ==
    LET p == Pull(chain, c, Len(chain))
    IN IF p.r.done THEN Collected(accumulator, p)
       ELSE ReduceLoop_ArgumentsSwapped(chain, Called(p, "reduce", p.r.value, idx), reducer,
                                        Reduced(reducer, p.r.value, accumulator, idx),
                                        idx + 1)

RECURSIVE ReduceLoop(_, _, _, _, _)
ReduceLoop(chain, c, reducer, accumulator, idx) ==
    LET p == Pull(chain, c, Len(chain))
    IN IF p.r.done THEN Collected(accumulator, p)
       ELSE ReduceLoop(chain, Called(p, "reduce", p.r.value, idx), reducer,
                       Reduced(reducer, accumulator, p.r.value, idx), idx + 1)

\* A find that leaves its source open when it has found its element.
RECURSIVE FindLoop_LeavesOpen(_, _, _, _)
FindLoop_LeavesOpen(chain, c, predicate, idx) ==
    LET p == Pull(chain, c, Len(chain))
        q == Called(p, "find", p.r.value, idx)
    IN IF p.r.done THEN Collected([found |-> FALSE, item |-> 0], p)
       ELSE IF Truthy(predicate, p.r.value, idx)
            THEN Collected([found |-> TRUE, item |-> p.r.value], q)
            ELSE FindLoop_LeavesOpen(chain, q, predicate, idx + 1)

\* find, some, every: a return inside for-await closes the iterator.
RECURSIVE FindLoop(_, _, _, _)
FindLoop(chain, c, predicate, idx) ==
    LET p == Pull(chain, c, Len(chain))
        q == Called(p, "find", p.r.value, idx)
    IN IF p.r.done THEN Collected([found |-> FALSE, item |-> 0], p)
       ELSE IF Truthy(predicate, p.r.value, idx)
            THEN Collected([found |-> TRUE, item |-> p.r.value],
                           Close(chain, q, Len(chain)))
            ELSE FindLoop(chain, q, predicate, idx + 1)

RECURSIVE SomeLoop(_, _, _, _)
SomeLoop(chain, c, predicate, idx) ==
    LET p == Pull(chain, c, Len(chain))
        q == Called(p, "some", p.r.value, idx)
    IN IF p.r.done THEN Collected(FALSE, p)
       ELSE IF Truthy(predicate, p.r.value, idx)
            THEN Collected(TRUE, Close(chain, q, Len(chain)))
            ELSE SomeLoop(chain, q, predicate, idx + 1)

RECURSIVE EveryLoop(_, _, _, _)
EveryLoop(chain, c, predicate, idx) ==
    LET p == Pull(chain, c, Len(chain))
        q == Called(p, "every", p.r.value, idx)
    IN IF p.r.done THEN Collected(TRUE, p)
       ELSE IF ~Truthy(predicate, p.r.value, idx)
            THEN Collected(FALSE, Close(chain, q, Len(chain)))
            ELSE EveryLoop(chain, q, predicate, idx + 1)

\* The terminal collectors.
toArray(chain) == ToArrayLoop(chain, Start(chain), <<>>)
toSet(chain) == ToSetLoop(chain, Start(chain), {})
toMap(chain, keyFn) == ToMapLoop(chain, Start(chain), keyFn, <<>>)
forEach(chain) == ForEachLoop(chain, Start(chain), 0)
reduce(chain, reducer, initialValue) ==
    ReduceLoop(chain, Start(chain), reducer, initialValue, 0)
find(chain, predicate) == FindLoop(chain, Start(chain), predicate, 0)
some(chain, predicate) == SomeLoop(chain, Start(chain), predicate, 0)
every(chain, predicate) == EveryLoop(chain, Start(chain), predicate, 0)

\* A wrapper whose take method skips.
FluentAsyncIterable_take_Skips(this, count) ==
    FluentAsyncIterable(skip(Wrapped(this), count))

\* The methods of FluentAsyncIterable.
FluentAsyncIterable_filter(this, predicate) ==
    FluentAsyncIterable(filter(Wrapped(this), predicate))
FluentAsyncIterable_map(this, transform) ==
    FluentAsyncIterable(map(Wrapped(this), transform))
FluentAsyncIterable_take(this, count) ==
    FluentAsyncIterable(take(Wrapped(this), count))
FluentAsyncIterable_skip(this, count) ==
    FluentAsyncIterable(skip(Wrapped(this), count))
FluentAsyncIterable_toArray(this) == toArray(Wrapped(this))
FluentAsyncIterable_toSet(this) == toSet(Wrapped(this))
FluentAsyncIterable_toMap(this, keyFn) == toMap(Wrapped(this), keyFn)
FluentAsyncIterable_forEach(this) == forEach(Wrapped(this))
FluentAsyncIterable_reduce(this, reducer, initialValue) ==
    reduce(Wrapped(this), reducer, initialValue)
FluentAsyncIterable_find(this, predicate) == find(Wrapped(this), predicate)
FluentAsyncIterable_some(this, predicate) == some(Wrapped(this), predicate)
FluentAsyncIterable_every(this, predicate) == every(Wrapped(this), predicate)

\* paginate(callback, options) over a fetch function serving n items.
paginate(n) == FluentAsyncIterable(<<Stage("paginate", n)>>)

(***************************************************************************)
(* The sequence operators at work: a wrapped source, operators applied to   *)
(* it one by one in the order filter, map, skip, take (each at most once),  *)
(* once as standalone functions and once as methods of the wrapper, and     *)
(* then one terminal collector run on both.  The generator of a paginated   *)
(* source has all hooks set and the throw policy; its variables stay at     *)
(* their initial values, the run of the generator is part of the outcome.   *)
(***************************************************************************)
ListOptions ==
    [strategy |-> "offset", limit |-> 1,
     errorPolicy |-> [type |-> "throw", maxErrorCount |-> 0],
     initialOffset |-> Undefined, initialPage |-> Undefined,
     initialCursor |-> Undefined, hooks |-> {}]

PagedOptions ==
    {o \in PaginationOptions :
        /\ o.errorPolicy.type = "throw"
        /\ o.hooks = HookNames
        /\ o.initialOffset = Undefined
        /\ o.initialPage = Undefined
        /\ o.initialCursor = Undefined}

OpInit ==
    /\ \/ /\ options = ListOptions
          /\ iterable \in {FluentAsyncIterable(s) : s \in ListSources}
       \/ /\ options \in PagedOptions
          /\ iterable \in {paginate(n) : n \in 0..(MaxFetches * options.limit)}
    /\ GeneratorInit
    /\ fluent = iterable
    /\ outcome = NoOutcome

Rank(op) ==
    CASE op = "filter" -> 1 [] op = "map" -> 2 [] op = "skip" -> 3 [] op = "take" -> 4
      [] OTHER -> 0

MayApply(op) ==
    /\ outcome = NoOutcome
    /\ \A i \in 1..Len(iterable) : Rank(iterable[i].op) < Rank(op)

ApplyFilter ==
    /\ MayApply("filter")
    /\ \E predicate \in Predicates :
          /\ iterable' = filter(iterable, predicate)
          /\ fluent' = FluentAsyncIterable_filter(fluent, predicate)
    /\ UNCHANGED <<options, genVars, outcome>>

ApplyMap ==
    /\ MayApply("map")
    /\ \E transform \in Transforms :
          /\ iterable' = map(iterable, transform)
          /\ fluent' = FluentAsyncIterable_map(fluent, transform)
    /\ UNCHANGED <<options, genVars, outcome>>

ApplySkip ==
    /\ MayApply("skip")
    /\ \E count \in 0..MaxCount :
          /\ iterable' = skip(iterable, count)
          /\ fluent' = FluentAsyncIterable_skip(fluent, count)
    /\ UNCHANGED <<options, genVars, outcome>>

ApplyTake ==
    /\ MayApply("take")
    /\ \E count \in (-1)..MaxCount :
          /\ iterable' = take(iterable, count)
          /\ fluent' = FluentAsyncIterable_take(fluent, count)
    /\ UNCHANGED <<options, genVars, outcome>>

Outcome(op, standalone, method) ==
    [op |-> op, standalone |-> standalone, method |-> method]

CollectToArray ==
    /\ outcome = NoOutcome
    /\ outcome' = Outcome("toArray", toArray(iterable), FluentAsyncIterable_toArray(fluent))
    /\ UNCHANGED <<options, genVars, iterable, fluent>>

CollectToSet ==
    /\ outcome = NoOutcome
    /\ outcome' = Outcome("toSet", toSet(iterable), FluentAsyncIterable_toSet(fluent))
    /\ UNCHANGED <<options, genVars, iterable, fluent>>

CollectToMap ==
    /\ outcome = NoOutcome
    /\ \E keyFn \in KeyFns :
          outcome' = Outcome("toMap", toMap(iterable, keyFn),
                             FluentAsyncIterable_toMap(fluent, keyFn))
    /\ UNCHANGED <<options, genVars, iterable, fluent>>

CollectForEach ==
    /\ outcome = NoOutcome
    /\ outcome' = Outcome("forEach", forEach(iterable), FluentAsyncIterable_forEach(fluent))
    /\ UNCHANGED <<options, genVars, iterable, fluent>>

CollectReduce ==
    /\ outcome = NoOutcome
    /\ \E reducer \in Reducers :
          outcome' = Outcome("reduce", reduce(iterable, reducer, 1),
                             FluentAsyncIterable_reduce(fluent, reducer, 1))
    /\ UNCHANGED <<options, genVars, iterable, fluent>>

CollectFind ==
    /\ outcome = NoOutcome
    /\ outcome' = Outcome("find", find(iterable, "even"),
                          FluentAsyncIterable_find(fluent, "even"))
    /\ UNCHANGED <<options, genVars, iterable, fluent>>

CollectSome ==
    /\ outcome = NoOutcome
    /\ outcome' = Outcome("some", some(iterable, "even"),
                          FluentAsyncIterable_some(fluent, "even"))
    /\ UNCHANGED <<options, genVars, iterable, fluent>>

CollectEvery ==
    /\ outcome = NoOutcome
    /\ outcome' = Outcome("every", every(iterable, "odd"),
                          FluentAsyncIterable_every(fluent, "odd"))
    /\ UNCHANGED <<options, genVars, iterable, fluent>>

OpNext ==
    \/ ApplyFilter
    \/ ApplyMap
    \/ ApplySkip
    \/ ApplyTake
    \/ CollectToArray
    \/ CollectToSet
    \/ CollectToMap
    \/ CollectForEach
    \/ CollectReduce
    \/ CollectFind
    \/ CollectSome
    \/ CollectEvery

OpSpec == OpInit /\ [][OpNext]_vars

(***************************************************************************)
(* C17: take(source, count), drained, yields the first min(count, length)   *)
(* elements of its source in order.  For count <= 0 it never pulls; for     *)
(* 1 <= count <= length it stops right after the count-th element, closing  *)
(* its source, so that it pulls exactly count elements; for a larger count  *)
(* it does what draining the source does.  After filter over paginate() the *)
(* fetch function is called only up to the page of the count-th match:      *)
(* fewer times than there are pages when that page is not the last.         *)
(***************************************************************************)
Top == iterable[Len(iterable)]
Below == SubSeq(iterable, 1, Len(iterable) - 1)

C17_TakeStopsPulling ==
    (outcome.op = "toArray" /\ Top.op = "take")
    => LET count == Top.arg
           all == toArray(Below)
           got == outcome.standalone
           length == Len(all.value)
       IN /\ got.value = SubSeq(all.value, 1, Min(Max(count, 0), length))
          /\ count <= 0 =>
                got.pulls = 0 /\ got.log = <<>> /\ ~got.returned /\ got.fetches = 0
          /\ (1 <= count /\ count <= length) =>
                /\ got.returned
                /\ got.log = Append(SubSeq(all.log, 1, Len(got.log) - 1),
                                    OpEv("return", "source", 0, got.pulls))
                /\ got.pulls < all.pulls
                /\ Len(Below) = 2 => got.pulls = count
                /\ (Len(Below) = 3 /\ Below[1].op = "paginate" /\ Below[3].op = "filter") =>
                      /\ got.fetches = Ceil(all.value[count], options.limit)
                      /\ all.fetches = Ceil(Below[1].arg, options.limit)
                      /\ got.fetches < all.fetches
                            <=> Ceil(all.value[count], options.limit)
                                    < Ceil(Below[1].arg, options.limit)
          /\ count > length => got = all

C17_Witness ==
    /\ options.limit = 2
    /\ iterable = take(filter(paginate(4), "even"), 1)
    /\ outcome.op = "toArray"
    /\ outcome.standalone.value = <<2>>
    /\ outcome.standalone.pulls = 2
    /\ outcome.standalone.fetches = 1

(***************************************************************************)
(* C18: when the hooks return normally and onReturn is set, a successful    *)
(* page with hasNextPage = false is followed by its items and then by the   *)
(* one call of onReturn; the consumer sees the end only when that call has  *)
(* returned; and as long as no fetch has failed onReturn is called at no    *)
(* other place, so not after a page that has a next page.                   *)
(***************************************************************************)
C18_OnReturnOnceAfterLastPage ==
    (Has("onReturn") /\ HooksReturnNormally)
    => /\ \A j \in PagesAt(FALSE) :
             /\ ItemsFollow(j)
             /\ AfterPage(j) <= Len(log) =>
                   /\ log[AfterPage(j)] = Call("onReturn", NoRequest, NoError, 0)
                   /\ delivered = FetchedItems
             /\ AfterPage(j) > Len(log) => pc \in {"suspendedYield", "returned"}
             /\ pc = "done" =>
                   /\ Len(log) = AfterPage(j) + 1
                   /\ LastEvent = Return("onReturn", NoResult)
                   /\ NumCalls("onReturn") = 1
             /\ pc = "onReturnTry" <=> Len(log) = AfterPage(j)
       /\ ~FetchFailed =>
             \A i \in 1..Len(log) :
                 IsCallAt(i, "onReturn") => \E j \in PagesAt(FALSE) : i = AfterPage(j)

C18_Witness ==
    /\ options.hooks = HookNames
    /\ HooksReturnNormally
    /\ options.limit = 2
    /\ pc = "done"
    /\ Len(FetchSettled) = 2
    /\ ~FetchFailed
    /\ Len(delivered) = 3
    /\ NumCalls("onReturn") = 1

(***************************************************************************)
(* C19: the first fetch request of a run carries limit and the initial      *)
(* pointer of the strategy: initialOffset, initialPage or initialCursor     *)
(* when configured, otherwise offset 0, page 1 or cursor null; and it       *)
(* carries no pointer of another strategy.                                   *)
(***************************************************************************)
InitialRequest ==
    CASE options.strategy = "offset" ->
            [limit |-> Num(options.limit),
             offset |-> IF options.initialOffset = Undefined
                        THEN Num(0) ELSE options.initialOffset,
             page |-> Absent, cursor |-> Absent]
      [] options.strategy = "page" ->
            [limit |-> Num(options.limit), offset |-> Absent,
             page |-> IF options.initialPage = Undefined
                      THEN Num(1) ELSE options.initialPage,
             cursor |-> Absent]
      [] options.strategy = "cursor" ->
            [limit |-> Num(options.limit), offset |-> Absent, page |-> Absent,
             cursor |-> IF options.initialCursor = Undefined
                        THEN Null ELSE options.initialCursor]

Unwrapped == <<iterable[1]>>

C20_MethodsAreTheFunctions ==
    /\ outcome # NoOutcome => outcome.method = outcome.standalone
    /\ (outcome.op = "toArray" /\ Len(iterable) = 2)
          => /\ outcome.method = toArray(Unwrapped)
             /\ iterable[1].op = "source" => outcome.method.value = iterable[1].arg

C20_Witness ==
    /\ outcome.op = "toArray"
    /\ Len(fluent) = 6
    /\ Len(iterable[1].arg) = 3
    /\ [i \in 2..5 |-> fluent[i].op] = [i \in 2..5 |-> iterable[i + 1].op]
    /\ fluent[3].op = "map"
    /\ fluent[4] = Stage("skip", 1)
    /\ fluent[5] = Stage("take", 1)
    /\ outcome.method.value = <<11>>
    /\ outcome.method.returned
    /\ outcome.method.pulls = 2

(***************************************************************************)
(* C21: find, some and every decide at the first element that satisfies     *)
(* (find, some) or fails (every) the predicate.  find returns that element, *)
(* or undefined when there is none; some returns whether there is one;      *)
(* every returns whether there is none.  The predicate is called once for   *)
(* each element up to the deciding one, with index 0, 1, 2, ... in order.   *)
(* At the deciding element the sequence is closed and nothing more is       *)
(* pulled: apart from the predicate's calls the run is a prefix of the      *)
(* drain of the sequence, followed by the close.  Without a deciding        *)
(* element the run is the drain.                                             *)
(***************************************************************************)
IsCallOf(e, of) == e.ev = "call" /\ e.of = of
CallsOf(l, of) == SelectSeq(l, LAMBDA e : IsCallOf(e, of))
WithoutCallsOf(l, of) == SelectSeq(l, LAMBDA e : ~IsCallOf(e, of))

\* The positions of the elements that decide, for a predicate and the truth
\* value that decides.
Deciding(xs, predicate, truth) ==
    {i \in 1..Len(xs) : Truthy(predicate, xs[i], i - 1) = truth}
First(S) == CHOOSE i \in S : \A j \in S : i <= j

ShortCircuits(op, predicate, truth) ==
    LET all == toArray(iterable)
        xs == all.value
        got == outcome.standalone
        hits == Deciding(xs, predicate, truth)
        k == IF hits = {} THEN Len(xs) ELSE First(hits)
    IN /\ CallsOf(got.log, op) = [i \in 1..k |-> OpEv("call", op, xs[i], i - 1)]
       /\ hits = {} =>
             /\ WithoutCallsOf(got.log, op) = all.log
             /\ got.pulls = all.pulls
             /\ got.returned = all.returned
             /\ got.fetches = all.fetches
       /\ hits # {} =>
             /\ got.returned
             /\ got.log[Len(got.log) - 1] = OpEv("call", op, xs[k], k - 1)
             /\ WithoutCallsOf(got.log, op)
                   = Append(SubSeq(all.log, 1, Len(got.log) - k - 1),
                            OpEv("return", "source", 0, got.pulls))
             /\ got.pulls <= all.pulls
             /\ got.fetches <= all.fetches
             /\ iterable[1].op = "source" /\ Len(iterable) = 2 =>
                   got.pulls = k /\ got.pulls < all.pulls

C21_FindSomeEveryShortCircuit ==
    LET xs == toArray(iterable).value
        got == outcome.standalone
    IN /\ outcome.op = "find" =>
             /\ ShortCircuits("find", "even", TRUE)
             /\ got.value = IF Deciding(xs, "even", TRUE) = {}
                            THEN [found |-> FALSE, item |-> 0]
                            ELSE [found |-> TRUE,
                                  item |-> xs[First(Deciding(xs, "even", TRUE))]]
       /\ outcome.op = "some" =>
             /\ ShortCircuits("some", "even", TRUE)
             /\ got.value = (Deciding(xs, "even", TRUE) # {})
       /\ outcome.op = "every" =>
             /\ ShortCircuits("every", "odd", FALSE)
             /\ got.value = (Deciding(xs, "odd", FALSE) = {})

C21_Witness ==
    /\ iterable = FluentAsyncIterable(<<Stage("source", <<1, 2, 1>>)>>)
    /\ outcome.op = "find"
    /\ outcome.standalone.value = [found |-> TRUE, item |-> 2]
    /\ outcome.standalone.pulls = 2
    /\ outcome.standalone.returned

(***************************************************************************)
(* C22: filter(source, predicate), drained, yields the elements of the      *)
(* source whose predicate result is truthy, in source order.  Each element  *)
(* the source hands over is followed at once, before the next pull, by one  *)
(* call predicate(item, index), index being the number of elements pulled   *)
(* before it; the source is pulled as draining it pulls it.                 *)
(***************************************************************************)
IsElement(e) == e.ev = "next" /\ e.item # 0

RECURSIVE CalledOnEach(_, _)
CalledOnEach(l, of) ==
    IF l = <<>> THEN <<>>
    ELSE (IF IsElement(Head(l))
          THEN <<Head(l), OpEv("call", of, Head(l).item, Head(l).idx)>>
          ELSE <<Head(l)>>) \o CalledOnEach(Tail(l), of)

Kept(xs, predicate) ==
    LET at == SelectSeq([i \in 1..Len(xs) |-> i],
                        LAMBDA i : Truthy(predicate, xs[i], i - 1))
    IN [j \in 1..Len(at) |-> xs[at[j]]]

C22_FilterKeepsTruthyInOrder ==
    (outcome.op = "toArray" /\ Top.op = "filter")
    => LET all == toArray(Below)
           got == outcome.standalone
       IN /\ got.value = Kept(all.value, Top.arg)
          /\ got.log = CalledOnEach(all.log, "filter")
          /\ Len(CallsOf(got.log, "filter")) = Len(all.value)
          /\ \A j \in 1..Len(all.value) :
                CallsOf(got.log, "filter")[j] = OpEv("call", "filter", all.value[j], j - 1)
          /\ got.pulls = all.pulls
          /\ got.fetches = all.fetches
          /\ got.returned = all.returned

C22_Witness ==
    /\ iterable = filter(FluentAsyncIterable(<<Stage("source", <<1, 2, 2>>)>>), "even")
    /\ outcome.op = "toArray"
    /\ outcome.standalone.value = <<2, 2>>
    /\ CallsOf(outcome.standalone.log, "filter")
          = <<OpEv("call", "filter", 1, 0), OpEv("call", "filter", 2, 1),
              OpEv("call", "filter", 2, 2)>>
    /\ outcome.standalone.pulls = 4

(***************************************************************************)
(* C23: skip(source, count), drained, yields the elements of the source     *)
(* after the first count, unchanged and in order: all of them for count 0,  *)
(* none when count is at least the length.  The discarded elements are      *)
(* pulled all the same: the source is pulled exactly as draining it pulls   *)
(* it.                                                                       *)
(***************************************************************************)
C23_SkipDiscardsFirstCount ==
    (outcome.op = "toArray" /\ Top.op = "skip")
    => LET count == Top.arg
           all == toArray(Below)
           got == outcome.standalone
           length == Len(all.value)
       IN /\ got.value = SubSeq(all.value, count + 1, length)
          /\ Len(got.value) = Max(length - count, 0)
          /\ count = 0 => got = all
          /\ count >= length => got.value = <<>>
          /\ got.log = all.log
          /\ got.pulls = all.pulls
          /\ got.fetches = all.fetches
          /\ got.returned = all.returned

C23_Witness ==
    /\ iterable = skip(FluentAsyncIterable(<<Stage("source", <<1, 2, 1>>)>>), 2)
    /\ outcome.op = "toArray"
    /\ outcome.standalone.value = <<1>>
    /\ outcome.standalone.pulls = 4

(***************************************************************************)
(* C24: toMap(source, keyFn) returns a map whose keys are the keys of the   *)
(* source's elements, one entry for each, and whose value at a key is the   *)
(* last element of the source, in source order, that has the key.  It       *)
(* drains the source.                                                        *)
(***************************************************************************)
Last(S) == CHOOSE i \in S : \A j \in S : j <= i
WithKey(xs, keyFn, k) == {i \in 1..Len(xs) : Key(keyFn, xs[i]) = k}

C24_ToMapLastWins ==
    outcome.op = "toMap"
    => LET all == toArray(iterable)
           xs == all.value
           got == outcome.standalone
           keys == {Key("parity", xs[i]) : i \in 1..Len(xs)}
       IN /\ DOMAIN got.value = keys
          /\ \A k \in keys : got.value[k] = xs[Last(WithKey(xs, "parity", k))]
          /\ Cardinality(DOMAIN got.value) = Cardinality(keys)
          /\ got.log = all.log
          /\ got.pulls = all.pulls
          /\ got.returned = all.returned

C24_Witness ==
    /\ iterable = paginate(4)
    /\ outcome.op = "toMap"
    /\ DOMAIN outcome.standalone.value = {0, 1}
    /\ outcome.standalone.value[1] = 3
    /\ outcome.standalone.value[0] = 4

(***************************************************************************)
(* C25: toSet returns the set of the values of the sequence: every value    *)
(* is in it, and its size is the number of distinct values, however often   *)
(* a value occurs.  toArray returns the elements the source handed over,    *)
(* all of them and in order, a repeated value as often as it occurs.  Both  *)
(* drain the sequence.                                                       *)
(***************************************************************************)
FirstOccurrences(xs) == {i \in 1..Len(xs) : \A j \in 1..(i - 1) : xs[j] # xs[i]}
Elements(l) == SelectSeq(l, IsElement)

C25_ToSetDistinctToArrayAll ==
    /\ outcome.op = "toSet" =>
          LET all == toArray(iterable)
              xs == all.value
              got == outcome.standalone
          IN /\ \A i \in 1..Len(xs) : xs[i] \in got.value
             /\ \A x \in got.value : \E i \in 1..Len(xs) : xs[i] = x
             /\ Cardinality(got.value) = Cardinality(FirstOccurrences(xs))
             /\ got.log = all.log
             /\ got.pulls = all.pulls
    /\ (outcome.op = "toArray" /\ Len(iterable) = 2) =>
          LET got == outcome.standalone
              handed == Elements(got.log)
          IN /\ Len(got.value) = Len(handed)
             /\ \A i \in 1..Len(handed) : got.value[i] = handed[i].item
             /\ got.pulls = Len(handed) + 1
             /\ iterable[1].op = "source" => got.value = iterable[1].arg
             /\ iterable[1].op = "paginate" => got.value = Iota(iterable[1].arg)

C25_Witness ==
    /\ iterable = FluentAsyncIterable(<<Stage("source", <<1, 2, 1>>)>>)
    /\ outcome.op = "toSet"
    /\ outcome.standalone.value = {1, 2}
    /\ toArray(iterable).value = <<1, 2, 1>>

(***************************************************************************)
(* C26: reduce(source, reducer, initial) returns the left fold of the       *)
(* elements in source order, starting from initial.  The reducer is called  *)
(* once for each element, with index 0, 1, 2, ..., right after the element  *)
(* was handed over and before the next pull; on an empty source it is not   *)
(* called and initial is returned.  The source is drained.                  *)
(***************************************************************************)
RECURSIVE LeftFold(_, _, _, _)
LeftFold(xs, reducer, accumulator, idx) ==
    IF idx >= Len(xs) THEN accumulator
    ELSE LeftFold(xs, reducer, Reduced(reducer, accumulator, xs[idx + 1], idx), idx + 1)

C26_ReduceIsLeftFold ==
    outcome.op = "reduce"
    => LET all == toArray(iterable)
           xs == all.value
           got == outcome.standalone
       IN /\ got.value = LeftFold(xs, "doublePlusItem", 1, 0)
          /\ xs = <<>> => got.value = 1 /\ CallsOf(got.log, "reduce") = <<>>
          /\ CallsOf(got.log, "reduce")
                = [i \in 1..Len(xs) |-> OpEv("call", "reduce", xs[i], i - 1)]
          /\ WithoutCallsOf(got.log, "reduce") = all.log
          /\ Len(iterable) = 2 => got.log = CalledOnEach(all.log, "reduce")
          /\ got.pulls = all.pulls

C26_Witness ==
    /\ iterable = FluentAsyncIterable(<<Stage("source", <<1, 2, 2>>)>>)
    /\ outcome.op = "reduce"
    /\ outcome.standalone.value = 18
    /\ Len(CallsOf(outcome.standalone.log, "reduce")) = 3

(***************************************************************************)
(* C27: under the continue policy, when onMaxConsecutiveErrors throws the   *)
(* run still ends as a break does: the consumer sees the end of the         *)
(* sequence and no exception.  The call of onMaxConsecutiveErrors stands    *)
(* in the catch block with no try around it, so its exception leaves the    *)
(* generator: the consumer gets the hook's exception and onReturn is not    *)
(* called.                                                                   *)
(***************************************************************************)
C27_Original ==
    (PolicyIs("continue") /\ Threw("onMaxConsecutiveErrors"))
    => /\ pc # "thrown"
       /\ raised = NoError

(***************************************************************************)
(* C28: under the continue policy with maxErrorCount = K and a fetch        *)
(* function that always fails (hooks returning normally), how often is the  *)
(* fetch function tried after its first failure?  As stated: K times.  The  *)
(* count is compared with >= after every failure, the first included, so    *)
(* the run ends at the K-th failure: K - 1 tries follow the first failure,  *)
(* K - 1 continue decisions are taken, and the run ends normally.           *)
(***************************************************************************)
FailsForever == PolicyIs("continue") /\ EveryFetchFailed /\ HooksReturnNormally /\ FetchFailed
TriesAfterFirstFailure == Cardinality(CallsAfter(First(ThrowsAt("fetch")), "fetch"))

C28_Original ==
    (FailsForever /\ Terminated)
    => TriesAfterFirstFailure = options.errorPolicy.maxErrorCount

C28_ContinueTriesKMinusOneMore ==
    FailsForever
    => /\ TriesAfterFirstFailure <= options.errorPolicy.maxErrorCount - 1
       /\ Terminated =>
             /\ TriesAfterFirstFailure = options.errorPolicy.maxErrorCount - 1
             /\ Cardinality(ThrowsAt("fetch")) = options.errorPolicy.maxErrorCount
             /\ consecutiveErrorCount = options.errorPolicy.maxErrorCount
             /\ pc = "done"

C28_Witness ==
    /\ FailsForever
    /\ options.errorPolicy.maxErrorCount = 2
    /\ pc = "done"
    /\ TriesAfterFirstFailure = 1
    /\ NumCalls("fetch") = 2

(***************************************************************************)
(* C29: under the continue policy with hooks that return normally, a fetch  *)
(* failure that brings the failures in a row to maxErrorCount is followed   *)
(* by onError(error), onMaxConsecutiveErrors(error, maxErrorCount) and      *)
(* onReturn, those that are set, in this order and each returned before     *)
(* the next is called; then the run has ended and nothing else happens, in  *)
(* particular no fetch.  A failure below the maximum is followed by         *)
(* onError(error) and then by the next fetch attempt (onPage, if set, and   *)
(* the fetch call); neither onMaxConsecutiveErrors nor onReturn is called.  *)
(***************************************************************************)
HookCall(h) == IF Has(h) THEN <<<<"call", h>>, <<"return", h>>>> ELSE <<>>

FollowsAtMaximum ==
    HookCall("onError") \o HookCall("onMaxConsecutiveErrors") \o HookCall("onReturn")
FollowsBelowMaximum ==
    HookCall("onError") \o HookCall("onPage") \o <<<<"call", "fetch">>>>

\* The log after position i runs along the expected events.
RunsAlong(i, expected) ==
    \A j \in 1..Len(expected) :
        i + j <= Len(log) => log[i + j].ev = expected[j][1] /\ log[i + j].of = expected[j][2]

C29_HookOrderAtAndBelowMaximum ==
    (PolicyIs("continue") /\ HooksReturnNormally)
    => \A i \in ThrowsAt("fetch") :
          IF FailuresInARow(i) >= options.errorPolicy.maxErrorCount
          THEN /\ FailuresInARow(i) = options.errorPolicy.maxErrorCount
               /\ RunsAlong(i, FollowsAtMaximum)
               /\ Len(log) <= i + Len(FollowsAtMaximum)
               /\ \A j \in (i + 1)..Len(log) :
                     /\ log[j].ev = "call" /\ log[j].of = "onError" => log[j].err = log[i].err
                     /\ log[j].ev = "call" /\ log[j].of = "onMaxConsecutiveErrors" =>
                           /\ log[j].err = log[i].err
                           /\ log[j].n = options.errorPolicy.maxErrorCount
               /\ Len(log) = i + Len(FollowsAtMaximum) <=> pc = "done"
               /\ pc # "thrown"
          ELSE /\ RunsAlong(i, FollowsBelowMaximum)
               /\ IsCallAt(i + 1, "onError") => log[i + 1].err = log[i].err
               /\ Len(log) < i + Len(FollowsBelowMaximum) =>
                     pc \in {"onError", "onPage", "loop"}

C29_Witness ==
    /\ PolicyIs("continue")
    /\ options.errorPolicy.maxErrorCount = 2
    /\ options.hooks = HookNames
    /\ HooksReturnNormally
    /\ Cardinality(ThrowsAt("fetch")) = 2
    /\ pc = "done"
    /\ Len(log) = Last(ThrowsAt("fetch")) + 6
    /\ \E j \in 1..Len(log) : IsCallAt(j, "onMaxConsecutiveErrors") /\ log[j].n = 2

(***************************************************************************)
(* C30: when onPage is set, every fetch call comes right after the return   *)
(* of an onPage call of its own, also a fetch that follows a failure, and   *)
(* every onPage return is followed at once by the fetch call: so there are  *)
(* as many onPage calls as fetch calls, once onPage has returned.  The      *)
(* i-th onPage argument carries the pointer of the i-th request.  As        *)
(* stated, it carries the very value of the request: but onPage gets the    *)
(* generator's cursor as it is, undefined when none is set, while the       *)
(* adapter hands the fetch function null in its place.  When onPage is not  *)
(* set it is not called.                                                     *)
(***************************************************************************)
OnPageCalls == Calls(log, "onPage")

PointerOf(req) ==
    CASE options.strategy = "offset" -> req.offset
      [] options.strategy = "page" -> req.page
      [] options.strategy = "cursor" -> req.cursor

OnPageHasThrown == log' # log /\ log'[Len(log')] = Throw("onPage", HookError("onPage"))

C31_OnPageThrowPropagates ==
    /\ [][OnPageHasThrown =>
             /\ pc = "onPage" /\ pc' = "thrown"
             /\ raised' = HookError("onPage")
             /\ log' = Append(log, Throw("onPage", HookError("onPage")))
             /\ IsCallAt(Len(log), "onPage")
             /\ UNCHANGED <<consecutiveErrorCount, error, currentOffset, currentPage,
                            currentCursor, delivered>>]_vars
    /\ [][pc = "thrown" => UNCHANGED vars]_vars

C31_Witness ==
    /\ PolicyIs("continue")
    /\ Has("onError") /\ Has("onReturn")
    /\ pc = "thrown"
    /\ raised = HookError("onPage")
    /\ LastEvent = Throw("onPage", HookError("onPage"))
    /\ FetchFailed
    /\ consecutiveErrorCount = 1
    /\ NumCalls("onPage") = 2
    /\ NumCalls("fetch") = 1
    /\ NumCalls("onError") = 1
    /\ NumCalls("onReturn") = 0

(***************************************************************************)
(* C32: under the custom policy, when the decision handler throws, the      *)
(* consumer gets the handler's exception.  The throw is the last thing      *)
(* that happens in the run: after the handler was called there is no fetch  *)
(* and no call of onReturn.  The items delivered before stay delivered.     *)
(***************************************************************************)
C32_HandlerThrowPropagates ==
    Threw("handler")
    => /\ PolicyIs("custom")
       /\ pc = "thrown"
       /\ raised = HookError("handler")
       /\ ThrowsAt("handler") = {Len(log)}
       /\ IsCallAt(Len(log) - 1, "handler")
       /\ CallsAfter(Len(log) - 1, "fetch") = {}
       /\ CallsAfter(Len(log) - 1, "onReturn") = {}
       /\ delivered = FetchedItems

C32_Witness ==
    /\ PolicyIs("custom")
    /\ Has("onReturn")
    /\ Threw("handler")
    /\ pc = "thrown"
    /\ NumCalls("fetch") = 2
    /\ Len(delivered) = 2
    /\ NumCalls("onReturn") = 0

(***************************************************************************)
(* C33: under the page strategy the i-th fetch request carries              *)
(* page = initialPage + (i - 1) (and limit, and neither offset nor cursor), *)
(* whether the earlier fetches succeeded or failed and were continued past: *)
(* the page moves by exactly 1 each time, no page is requested twice, and   *)
(* the next request would carry initialPage + the number of requests made.  *)
(***************************************************************************)
InitialPage == Coalesce(options.initialPage, Num(1)).v

C33_PageAdvancesByOne ==
    options.strategy = "page"
    => LET fetches == FetchCalls
       IN /\ \A i \in 1..Len(fetches) :
                fetches[i].req =
                    [limit |-> Num(options.limit), offset |-> Absent,
                     page |-> Num(InitialPage + (i - 1)), cursor |-> Absent]
          /\ \A i, j \in 1..Len(fetches) :
                i # j => fetches[i].req.page # fetches[j].req.page
          /\ pc = "loop" => Params(Cur).page = Num(InitialPage + Len(fetches))
          /\ pc = "fetching" => currentPage = InitialPage + Len(fetches) - 1

C33_Witness ==
    /\ options.strategy = "page"
    /\ options.initialPage = Num(2)
    /\ PolicyIs("continue")
    /\ pc = "loop"
    /\ Len(FetchSettled) = 2
    /\ FetchSettled[1].ev = "return"
    /\ FetchSettled[1].res.hasNextPage
    /\ FetchSettled[2].ev = "throw"
    /\ FetchCalls[2].req.page = Num(3)
    /\ Params(Cur).page = Num(4)

(***************************************************************************)
(* C34 as claimed: once a fetch has succeeded with hasNextPage = false, no  *)
(* fetch is called after it in the run, under every policy and whatever     *)
(* the hooks do.  onReturn is called inside the try block: when it throws,  *)
(* the catch block takes it for a fetch failure and a continuing policy     *)
(* goes on to fetch again.                                                   *)
(***************************************************************************)
LastPagesAt ==
    {i \in ReturnsAt("fetch") : ~log[i].res.hasNextPage}

C34_Original ==
    \A i \in LastPagesAt : CallsAfter(i, "fetch") = {}

(***************************************************************************)
(* C35 as claimed: onReturn is called at most once in a run, whatever the   *)
(* policy, the fetch outcomes and the hooks do, and the consecutive error   *)
(* count never exceeds the number of fetches that failed.  An onReturn that *)
(* throws after the last page is caught as if the fetch had failed: the     *)
(* count goes up with no failed fetch, and the break action calls onReturn  *)
(* a second time.                                                            *)
(***************************************************************************)
C35_Original ==
    /\ NumCalls("onReturn") <= 1
    /\ consecutiveErrorCount <= Cardinality(ThrowsAt("fetch"))

(***************************************************************************)
(* C36 as claimed: under the continue policy with maxErrorCount = K, in     *)
(* every reachable state the consecutive error count is at most K, no more  *)
(* than K fetches have failed in a row, and the policy stops the run (the   *)
(* count has reached K) only when K fetches in a row have failed at some    *)
(* point.  The first two hold; an onReturn that throws after the last page  *)
(* is counted as a failure, and the policy stops a run in which fewer than  *)
(* K fetches failed.                                                         *)
(***************************************************************************)
CountAtMostMaximum ==
    consecutiveErrorCount <= options.errorPolicy.maxErrorCount

FailedInARowAtMostMaximum ==
    \A i \in 1..Len(log) : FailuresInARow(i) <= options.errorPolicy.maxErrorCount

StoppedAtMaximum ==
    consecutiveErrorCount >= options.errorPolicy.maxErrorCount

C36_Original ==
    PolicyIs("continue")
    => /\ CountAtMostMaximum
       /\ FailedInARowAtMostMaximum
       /\ StoppedAtMaximum =>
             \E i \in 1..Len(log) :
                 FailuresInARow(i) >= options.errorPolicy.maxErrorCount

(***************************************************************************)
(* C37: take(k) over paginate() on N items served in pages of L by a fetch  *)
(* function that never fails, with 1 <= k <= N, drained: the first k items  *)
(* are collected with exactly ceil(k / L) calls of the fetch function, so   *)
(* the page after the one of the k-th item is not fetched even when that    *)
(* item is the last of its page; the generator is closed by return() and    *)
(* onReturn, though set, is not called, even when k = N.  The method of the *)
(* wrapper does the same.                                                    *)
(***************************************************************************)
TakeOfPaginate ==
    /\ outcome.op = "toArray"
    /\ Len(iterable) = 3
    /\ iterable[1].op = "paginate"
    /\ Top.op = "take"
    /\ 1 <= Top.arg
    /\ Top.arg <= iterable[1].arg

TookPages(got, k) ==
    /\ got.value = Iota(k)
    /\ got.fetches = Ceil(k, options.limit)
    /\ got.returned
    /\ got.gen = "returned"
    /\ got.onReturns = 0

C37_TakeFetchesOnlyItsPages ==
    TakeOfPaginate
    => /\ Has("onReturn")
       /\ TookPages(outcome.standalone, Top.arg)
       /\ TookPages(outcome.method, Top.arg)

C37_Witness ==
    /\ options.limit = 2
    /\ iterable = take(paginate(2), 2)
    /\ outcome.op = "toArray"
    /\ outcome.standalone.value = <<1, 2>>
    /\ outcome.standalone.fetches = 1
    /\ outcome.standalone.onReturns = 0
    /\ toArray(Below).fetches = 1
    /\ toArray(Below).onReturns = 1

(***************************************************************************)
(* C38: the result of paginate() is single-pass.  Once the generator has   *)
(* completed (the consumer saw the end of the sequence after the last page  *)
(* or after a stop by the error policy, or saw an exception, or closed it   *)
(* with return() as break, find, some and take do), a later traversal of    *)
(* the same object, or of filter, map, take or skip over it, gets done at   *)
(* its first next(): it collects no item and leaves the generator as it     *)
(* was, so no fetch and no hook is called.                                   *)
(***************************************************************************)
Completed == pc \in {"done", "thrown", "returned"}

\* The object itself and the wrappers derived from it, over a fetch function
\* that would serve n items.
LaterTraversals(n) ==
    {paginate(n),
     filter(paginate(n), "odd"),
     map(paginate(n), "tenfoldPlusIndex"),
     take(paginate(n), MaxCount),
     skip(paginate(n), 0)}

EndsAtOnce(p) ==
    /\ p.r = IterDone
    /\ p.gen = Cur
    /\ p.pulls = 1

CollectsNothing(got) ==
    /\ got.value = <<>>
    /\ got.fetches = NumCalls("fetch")
    /\ got.onReturns = NumCalls("onReturn")
    /\ got.gen = pc

C38_SinglePass ==
    Completed
    => /\ \A chain \in LaterTraversals(MaxFetches * MaxLimit) :
             EndsAtOnce(Pull(chain, Start(chain), Len(chain)))
       /\ CollectsNothing(toArray(paginate(MaxFetches * MaxLimit)))

C38_Witness ==
    /\ pc = "returned"
    /\ delivered = <<1>>
    /\ options.limit = 2
    /\ NumCalls("fetch") = 1
    /\ FetchSettled[1].ev = "return"
    /\ FetchSettled[1].res.items = <<1, 2>>
    /\ toArray(paginate(MaxLimit)).value = <<>>
    /\ toArray(paginate(MaxLimit)).fetches = 1

(***************************************************************************)
(* C39: under the offset or the page strategy with the continue policy      *)
(* (maxErrorCount = K), when the consumer keeps pulling and every promise   *)
(* settles, the run comes to its end whichever fetches fail, unless the     *)
(* source goes on: a fetch at or past the last page succeeded with          *)
(* hasNextPage = true.  The sources are those of at most                    *)
(* MaxFetches + 1 - K pages, whose runs fit in MaxFetches fetch calls.      *)
(* Under the cursor strategy with the continue policy a failed fetch that   *)
(* is continued past is followed by a request with the same cursor, and     *)
(* after K failures in a row no fetch follows.                               *)
(***************************************************************************)
SourcePages == MaxFetches + 1 - options.errorPolicy.maxErrorCount

\* A fetch at or past the last page of the source said there is a next page.
SourceGoesOn ==
    \E i \in 1..Len(FetchSettled) :
        /\ FetchSettled[i].ev = "return"
        /\ FetchSettled[i].res.hasNextPage
        /\ Base(FetchCalls[i].req)
              >= Base(InitialRequest) + (SourcePages - 1) * options.limit

AdvancesPastFailure ==
    /\ options.strategy \in {"offset", "page"}
    /\ PolicyIs("continue")
    /\ SourcePages >= 1

SameCursorAfterFailure ==
    (options.strategy = "cursor" /\ PolicyIs("continue"))
    => LET fetches == FetchCalls
           settled == FetchSettled
       IN /\ \A k \in 1..Len(settled) :
                (settled[k].ev = "throw" /\ k < Len(fetches))
                => fetches[k + 1].req.cursor = fetches[k].req.cursor
          /\ \A i \in ThrowsAt("fetch") :
                /\ FailuresInARow(i) <= options.errorPolicy.maxErrorCount
                /\ FailuresInARow(i) = options.errorPolicy.maxErrorCount
                      => CallsAfter(i, "fetch") = {}

C39_TerminatesAndCursorRetried ==
    /\ AdvancesPastFailure => <>(Completed \/ SourceGoesOn)
    /\ []SameCursorAfterFailure

C39_Witness ==
    /\ options.strategy = "page"
    /\ PolicyIs("continue")
    /\ options.errorPolicy.maxErrorCount = 1
    /\ pc = "done"
    /\ ~SourceGoesOn
    /\ Len(FetchSettled) = 2
    /\ FetchSettled[1].ev = "return"
    /\ FetchSettled[1].res.hasNextPage
    /\ FetchSettled[2].ev = "throw"
    /\ consecutiveErrorCount = 1
    /\ HooksReturnNormally

====
